---- MODULE Spec2Model ----
(***************************************************************************)
(* Model of the data-completeness / tier-gating / provenance pipeline of   *)
(* the load-list generator (scripts/generate_load_list.py and the modules  *)
(* it drives).                                                             *)
(*                                                                         *)
(* Python values are modelled as tagged records so that dict.get, "is      *)
(* None", "== 0", "== ''" and truthiness behave as in Python.  Numbers are *)
(* fixed-point integers in hundredths (5.5 kW is 550) unless said          *)
(* otherwise.                                                              *)
(***************************************************************************)
EXTENDS Integers, Sequences, FiniteSets, TLC

VARIABLES
    pc,                    \* position of the running call
    metadata,              \* project metadata dict
    loads,                 \* list of load dicts
    tier_results,          \* calculate_tier_eligibility: per tier, per load completeness
    tier_eligibility,      \* Tier Eligibility Record returned by the gate
    MCC_MODULES_AVAILABLE, \* generate_load_list.py: did the tier-2 modules import
    equipment_list,        \* equipment records read from the equipment file
    motor_equipment,       \* generate_load_list: the motorized items
    duty_points,           \* generate_load_list: tag -> duty point (a list of pairs)
    panels,                \* generate_load_list: panel summaries
    fault_current_config,  \* generate_load_list: resolved fault current
    output,                \* generate_load_list: the report being built
    calls,                 \* collaborators invoked so far, in order
    raised,                \* exception that ended the run ("" while none)
    sizing_artifacts,      \* extract_duty_point: the artifacts found in the project
    artifact_index,        \* extract_duty_point: position of the loop over artifacts
    fallback_data,         \* extract_all_duty_points: fallback built from the record
    result,                \* extract_duty_point: the duty point being built
    call,                  \* a calculator called on its own: its name
    args,                  \* ... its arguments
    returned,              \* ... what it returned
    loaded_catalogs,       \* load_calculations.py: the catalogs held in module globals
    catalog_reads          \* catalog name -> times its file was opened and parsed

gate_vars == <<pc, metadata, loads, tier_results, tier_eligibility>>

run_vars ==
    <<MCC_MODULES_AVAILABLE, equipment_list, motor_equipment, duty_points, panels,
      fault_current_config, output, calls, raised>>

extract_vars == <<sizing_artifacts, artifact_index, fallback_data, result>>

call_vars == <<call, args, returned>>

catalog_vars == <<loaded_catalogs, catalog_reads>>

\* the catalog files under catalogs/
CatalogNames == {"motor_fla_tables", "motor_standards", "duty_profiles"}

vars == <<gate_vars, run_vars, extract_vars, call_vars, catalog_vars>>

-----------------------------------------------------------------------------
(* Bounds of the model *)

\* longest load list handed to calculate_tier_eligibility
MaxLoads == 5
\* number of fields of a sample load that deviate from a fully populated load
MaxDefects == 2
\* longest equipment list handed to generate_load_list
MaxEquipment == 2

-----------------------------------------------------------------------------
(* Python values *)

Absent == [t |-> "absent", s |-> "", n |-> 0]
None == [t |-> "none", s |-> "", n |-> 0]
Str(x) == [t |-> "str", s |-> x, n |-> 0]
Num(x) == [t |-> "num", s |-> "", n |-> x]
Bool(b) == [t |-> "bool", s |-> "", n |-> IF b THEN 1 ELSE 0]

\* Python ==  (bool is an int subclass: False == 0, True == 1)
PyEq(a, b) ==
    IF a.t \in {"num", "bool"} /\ b.t \in {"num", "bool"}
    THEN a.n = b.n
    ELSE a = b

\* Python truthiness (bool(x))
Truthy(a) ==
    CASE a.t = "none" -> FALSE
      [] a.t = "absent" -> FALSE
      [] a.t = "str" -> a.s # ""
      [] OTHER -> a.n # 0

\* k in d
HasKey(d, k) == k \in DOMAIN d /\ d[k] # Absent

\* d.get(k): None when the key is missing
DictGet(d, k) == IF HasKey(d, k) THEN d[k] ELSE None

\* d.get(k, default)
DictGetD(d, k, default) == IF HasKey(d, k) THEN d[k] ELSE default

\* round-half-even of num/den (den > 0, num >= 0), as Python's round()
RoundDiv(num, den) ==
    LET q == num \div den
        r == num % den
    IN  IF 2 * r < den THEN q
        ELSE IF 2 * r > den THEN q + 1
        ELSE IF q % 2 = 0 THEN q ELSE q + 1

RECURSIVE SumSeq(_)
SumSeq(s) == IF s = <<>> THEN 0 ELSE Head(s) + SumSeq(Tail(s))

-----------------------------------------------------------------------------
(* Tier gate: generate_load_list.py *)

TierFields ==
    {"equipment_tag", "rated_kw", "demand_kw", "flc_table_a", "fla_nameplate_a",
     "feeder_type", "mcc_panel", "efficiency_pct", "service_factor"}

\* TIER_REQUIRED_FIELDS[tier]["load"]
TierRequiredLoad(tier) ==
    CASE tier = 1 -> <<"equipment_tag", "rated_kw", "demand_kw">>
      [] tier = 2 -> <<"equipment_tag", "rated_kw", "flc_table_a", "feeder_type",
                       "mcc_panel">>
      [] tier = 3 -> <<"equipment_tag", "rated_kw", "flc_table_a", "fla_nameplate_a",
                       "feeder_type", "mcc_panel", "efficiency_pct", "service_factor">>

\* TIER_REQUIRED_FIELDS[tier]["percentage"]
TierPercentage(tier) == CASE tier = 1 -> 100 [] tier = 2 -> 80 [] tier = 3 -> 100

\* TIER_REQUIRED_FIELDS[3]["metadata_required"]
TierMetadataRequired == <<"fault_current_verified", "cable_lengths_verified">>

\* mutant: a zero value counts as present
FieldPresent_ZeroPresent(val) == val # None /\ ~PyEq(val, Str(""))

\* the test of line 167: val is not None and val != "" and val != 0
FieldPresent(val) == val # None /\ ~PyEq(val, Str("")) /\ ~PyEq(val, Num(0))

\* calculate_load_completeness(load, tier); completeness_pct is in tenths of a percent
calculate_load_completeness(load, tier) ==
    LET required == TierRequiredLoad(tier)
        present == SelectSeq(required, LAMBDA f : FieldPresent(DictGet(load, f)))
        missing == SelectSeq(required, LAMBDA f : ~FieldPresent(DictGet(load, f)))
    IN  [complete |-> Len(missing) = 0,
         completeness_pct |-> IF Len(required) > 0
                              THEN RoundDiv(Len(present) * 1000, Len(required))
                              ELSE 1000,
         present_fields |-> present,
         missing_fields |-> missing]

\* lines 211-218: every load is checked against every tier
CheckLoads(ls) ==
    [tier \in 1..3 |->
        [i \in 1..Len(ls) |->
            calculate_load_completeness(ls[i], tier)
                @@ [equipment_tag |-> DictGetD(ls[i], "equipment_tag", Str(""))]]]

\* mutant: the threshold must be exceeded, not reached
LoadGate_Strict(results, tier, n) ==
    LET complete_count == Cardinality({i \in 1..Len(results[tier]) : results[tier][i].complete})
    IN  complete_count * 100 > TierPercentage(tier) * n

\* lines 220-227: tier_gates[tier] = complete_pct >= threshold
LoadGate(results, tier, n) ==
    LET complete_count == Cardinality({i \in 1..Len(results[tier]) : results[tier][i].complete})
    IN  complete_count * 100 >= TierPercentage(tier) * n

\* mutant: a supplied fault-current value and cable-length source count as verified
MetadataGate_Presence(md) ==
    /\ DictGet(md, "available_fault_ka") # None
    /\ DictGet(md, "cable_lengths_source") # None

\* lines 229-242: the metadata requirements of tier 3
MetadataGate(md) ==
    /\ DictGet(md, "fault_current_source") = Str("verified")
    /\ Truthy(DictGetD(md, "cable_lengths_verified", Bool(FALSE)))

\* lines 220-242
TierGates(results, md, n) ==
    [tier \in 1..3 |->
        IF tier = 3
        THEN LoadGate(results, 3, n) /\ MetadataGate(md)
        ELSE LoadGate(results, tier, n)]

\* mutant: the tier-2 gate is tested before the tier-3 gate
EligibleTier_Tier2First(gates) == IF gates[2] THEN 2 ELSE IF gates[3] THEN 3 ELSE 1

\* lines 244-253
EligibleTier(gates) == IF gates[3] THEN 3 ELSE IF gates[2] THEN 2 ELSE 1

TierName(tier) ==
    CASE tier = 3 -> "Code-Compliant" [] tier = 2 -> "Preliminary Schedule"
      [] OTHER -> "Load Study"

\* lines 202-209: the record returned for an empty load list
EmptyEligibility ==
    [eligible_tier |-> 1,
     tier_name |-> "Load Study",
     overall_completeness_pct |-> 0,
     tier_gates |-> [tier \in 1..3 |-> tier = 1],
     load_completeness |-> <<>>]

\* lines 220-268: the record returned for a non-empty load list
Eligibility(results, md, n) ==
    LET gates == TierGates(results, md, n)
        tier2_results == results[2]
        \* sum of the per-load percentages (tenths), averaged and rounded to 1 decimal
        total == SumSeq([i \in 1..Len(tier2_results) |-> tier2_results[i].completeness_pct])
    IN  [eligible_tier |-> EligibleTier(gates),
         tier_name |-> TierName(EligibleTier(gates)),
         overall_completeness_pct |-> RoundDiv(total, Len(tier2_results)),
         tier_gates |-> gates,
         tier_2_complete_loads |->
             Cardinality({i \in 1..Len(tier2_results) : tier2_results[i].complete}),
         total_loads |-> n,
         tier_2_threshold_pct |-> TierPercentage(2),
         load_completeness |-> tier2_results]

\* calculate_tier_eligibility, lines 199-218: default metadata, the empty-list
\* return, else the per-load completeness of every tier
CheckEachLoad ==
    /\ pc = "calculate_tier_eligibility"
    /\ IF Len(loads) = 0
       THEN /\ tier_eligibility' = EmptyEligibility
            /\ tier_results' = tier_results
            /\ pc' = "gate_done"
       ELSE /\ tier_results' = CheckLoads(loads)
            /\ tier_eligibility' = tier_eligibility
            /\ pc' = "tier_gates"
    /\ UNCHANGED <<metadata, loads, run_vars, extract_vars, call_vars, catalog_vars>>

\* calculate_tier_eligibility, lines 220-268
DetermineTier ==
    /\ pc = "tier_gates"
    /\ tier_eligibility' = Eligibility(tier_results, metadata, Len(loads))
    /\ pc' = "gate_done"
    /\ UNCHANGED <<metadata, loads, tier_results, run_vars, extract_vars, call_vars,
                   catalog_vars>>

-----------------------------------------------------------------------------
(* Inputs of the tier gate *)

MetaKeys ==
    {"fault_current_source", "cable_lengths_verified", "available_fault_ka",
     "cable_lengths_source", "transformer_kva"}

EmptyMetadata == [k \in MetaKeys |-> Absent]

\* metadata dicts: every combination of the two verification marks, without and
\* with a merely supplied fault-current value and cable-length source
GateMetadata ==
    {[EmptyMetadata EXCEPT !["fault_current_source"] = fs,
                           !["cable_lengths_verified"] = cv,
                           !["available_fault_ka"] = supplied[1],
                           !["cable_lengths_source"] = supplied[2]] :
        fs \in {Absent, Str("assumption"), Str("verified")},
        cv \in {Absent, Bool(FALSE), Bool(TRUE), Str("yes")},
        supplied \in {<<Absent, Absent>>, <<Num(2500), Str("layout")>>}}

\* a load with every tier field populated and non-zero
FullLoad ==
    [f \in TierFields |->
        CASE f = "equipment_tag" -> Str("100-P-01")
          [] f = "rated_kw" -> Num(550)
          [] f = "demand_kw" -> Num(469)
          [] f = "flc_table_a" -> Num(1150)
          [] f = "fla_nameplate_a" -> Num(1040)
          [] f = "feeder_type" -> Str("DOL")
          [] f = "mcc_panel" -> Str("MCC-100")
          [] f = "efficiency_pct" -> Num(8960)
          [] f = "service_factor" -> Num(100)]

\* values a field can hold besides its populated one
OddValues == {Absent, None, Str(""), Num(0), Bool(FALSE), Bool(TRUE)}

\* the load that deviates from FullLoad in the fields of D, where it holds v[f]
Deviating(D, v) == [f \in TierFields |-> IF f \in D THEN v[f] ELSE FullLoad[f]]

\* single loads for calculate_load_completeness: at most MaxDefects deviating fields
DefectSets == {X \in SUBSET TierFields : Cardinality(X) <= MaxDefects}

\* loads the lists are built from: complete for every tier; complete for tiers
\* 1 and 2 only; complete for tier 1 only
ListLoads ==
    {FullLoad,
     [FullLoad EXCEPT !["fla_nameplate_a"] = Absent],
     [FullLoad EXCEPT !["mcc_panel"] = Str("")]}

NoResults == <<>>
NoEligibility == [eligible_tier |-> 0]
NoConfig == <<>>
NoOutput == <<>>

InitGate ==
    /\ pc = "calculate_tier_eligibility"
    /\ \/ /\ \E n \in 0..MaxLoads : loads \in [1..n -> ListLoads]
          /\ metadata \in GateMetadata
       \/ /\ \E D \in DefectSets : \E v \in [D -> OddValues] : loads = <<Deviating(D, v)>>
          /\ metadata = EmptyMetadata
    /\ tier_results = NoResults
    /\ tier_eligibility = NoEligibility
    /\ MCC_MODULES_AVAILABLE = TRUE
    /\ equipment_list = <<>>
    /\ motor_equipment = <<>>
    /\ duty_points = <<>>
    /\ panels = <<>>
    /\ fault_current_config = NoConfig
    /\ output = NoOutput
    /\ calls = <<>>
    /\ raised = ""
    /\ sizing_artifacts = <<>>
    /\ artifact_index = 0
    /\ fallback_data = <<>>
    /\ result = <<>>
    /\ call = ""
    /\ args = <<>>
    /\ returned = <<>>
    /\ loaded_catalogs = {}
    /\ catalog_reads = [c \in CatalogNames |-> 0]

NextGate == CheckEachLoad \/ DetermineTier

SpecGate == InitGate /\ [][NextGate]_vars

-----------------------------------------------------------------------------
(* Properties of the tier gate (checked under SpecGate) *)

\* a field value that is populated: not missing, not null, not empty, not zero
\* (False is zero in Python)
Populated(val) ==
    /\ val.t \notin {"absent", "none"}
    /\ val.t = "str" => val.s # ""
    /\ val.t \in {"num", "bool"} => val.n # 0

\* the load has every required field of the tier populated
CompleteFor(load, tier) ==
    \A i \in 1..Len(TierRequiredLoad(tier)) : Populated(load[TierRequiredLoad(tier)[i]])

CompleteCount(tier) == Cardinality({i \in 1..Len(loads) : CompleteFor(loads[i], tier)})

VerificationMarks ==
    /\ metadata["fault_current_source"] = Str("verified")
    /\ Truthy(metadata["cable_lengths_verified"])

Tier3GateHolds == Len(loads) > 0 /\ CompleteCount(3) = Len(loads) /\ VerificationMarks

Tier2GateHolds == Len(loads) > 0 /\ 5 * CompleteCount(2) >= 4 * Len(loads)

\* C1: the gate returns tier 3 if 100% of the loads are tier-3 complete and both
\* metadata verifications hold, else tier 2 if at least 80% of the loads are tier-2
\* complete, else tier 1; the empty list gives tier 1 with overall completeness 0.
C1_HighestTier ==
    pc = "gate_done" =>
        /\ tier_eligibility.eligible_tier =
               IF Tier3GateHolds THEN 3 ELSE IF Tier2GateHolds THEN 2 ELSE 1
        /\ Len(loads) = 0 =>
               /\ tier_eligibility.eligible_tier = 1
               /\ tier_eligibility.overall_completeness_pct = 0

\* a list that passes both the tier-3 and the tier-2 gate has been graded
C1_Witness ==
    /\ pc = "gate_done"
    /\ Tier3GateHolds /\ Tier2GateHolds
    /\ Len(loads) >= 2
    /\ tier_eligibility.eligible_tier = 3

\* C2: tier 3 is reported only if fault_current_source is "verified" and
\* cable_lengths_verified is true (in Python's sense of truth); the mere presence of
\* a fault-current value or a cable-length source never yields tier 3.
C2_Tier3NeedsBothMarks ==
    (pc = "gate_done" /\ tier_eligibility.eligible_tier = 3) =>
        /\ metadata["fault_current_source"] = Str("verified")
        /\ Truthy(metadata["cable_lengths_verified"])

\* every load tier-3 complete, fault-current value and cable-length source present,
\* one verification mark missing: graded, and not tier 3
C2_Witness ==
    /\ pc = "gate_done"
    /\ Len(loads) > 0 /\ CompleteCount(3) = Len(loads)
    /\ metadata["available_fault_ka"] # Absent
    /\ metadata["cable_lengths_source"] # Absent
    /\ metadata["fault_current_source"] = Str("verified")
    /\ ~Truthy(metadata["cable_lengths_verified"])
    /\ tier_eligibility.eligible_tier = 2

\* C3: a non-empty list with at least 80% of its loads tier-2 complete and no
\* verification mark in the metadata is graded exactly tier 2.
C3_ExactlyTier2 ==
    (/\ pc = "gate_done"
     /\ Tier2GateHolds
     /\ metadata["fault_current_source"] # Str("verified")
     /\ ~Truthy(metadata["cable_lengths_verified"])) =>
        tier_eligibility.eligible_tier = 2

\* five loads of which exactly four are tier-2 complete (80%), graded tier 2
C3_Witness ==
    /\ pc = "gate_done"
    /\ Len(loads) = 5 /\ CompleteCount(2) = 4
    /\ metadata["fault_current_source"] # Str("verified")
    /\ ~Truthy(metadata["cable_lengths_verified"])
    /\ tier_eligibility.eligible_tier = 2

\* C4: the tier_gates entry of tier 1 is true for every load list.
C4_Tier1GateAlwaysTrue ==
    pc = "gate_done" => tier_eligibility.tier_gates[1]

\* C5: a required field is in present_fields iff its value is not null, not "" and
\* not zero, else it is in missing_fields (so a zero demand_kw is missing); the two
\* lists partition the tier's required fields; complete iff missing_fields is empty.
C5_Completeness ==
    (pc \in {"tier_gates", "gate_done"} /\ Len(loads) > 0) =>
        \A tier \in 1..3 : \A i \in 1..Len(loads) :
            LET r == tier_results[tier][i]
                req == TierRequiredLoad(tier)
                inPresent(f) == \E k \in 1..Len(r.present_fields) : r.present_fields[k] = f
                inMissing(f) == \E k \in 1..Len(r.missing_fields) : r.missing_fields[k] = f
            IN  /\ \A k \in 1..Len(req) :
                       /\ inPresent(req[k]) <=> Populated(loads[i][req[k]])
                       /\ inMissing(req[k]) <=> ~Populated(loads[i][req[k]])
                /\ Len(r.present_fields) + Len(r.missing_fields) = Len(req)
                /\ \A k \in 1..Len(r.present_fields) :
                       \E j \in 1..Len(req) : req[j] = r.present_fields[k]
                /\ \A k \in 1..Len(r.missing_fields) :
                       \E j \in 1..Len(req) : req[j] = r.missing_fields[k]
                /\ r.complete <=> (r.missing_fields = <<>>)

\* a load whose demand_kw is 0 has been checked: demand_kw is its only missing field
C5_Witness ==
    /\ pc = "tier_gates"
    /\ Len(loads) = 1
    /\ loads[1]["demand_kw"] = Num(0)
    /\ tier_results[1][1].missing_fields = <<"demand_kw">>
    /\ tier_results[1][1].present_fields = <<"equipment_tag", "rated_kw">>
    /\ ~tier_results[1][1].complete

-----------------------------------------------------------------------------
(* Strings: the characters of the string literals that the code inspects *)

Chars(str) ==
    CASE str = "" -> <<>>
      [] str = "DOL" -> <<"D", "O", "L">>
      [] str = "VFD" -> <<"V", "F", "D">>
      [] str = "vfd" -> <<"v", "f", "d">>
      [] str = "P" -> <<"P">>
      [] str = "B" -> <<"B">>
      [] str = "AG" -> <<"A", "G">>
      [] str = "TK" -> <<"T", "K">>
      [] str = "m3/h" -> <<"m", "3", "/", "h">>
      [] str = "Nm3/h" -> <<"N", "m", "3", "/", "h">>
      [] str = "m3" -> <<"m", "3">>
      [] str = "2W+1S" -> <<"2", "W", "+", "1", "S">>
      [] str = "0W+1S" -> <<"0", "W", "+", "1", "S">>
      [] str = "1w + 1s" -> <<"1", "w", " ", "+", " ", "1", "s">>
      [] str = "3" -> <<"3">>
      [] str = "N+1" -> <<"N", "+", "1">>
      [] str = "MCC-100" -> <<"M", "C", "C", "-", "1", "0", "0">>
      [] str = "MCC-200" -> <<"M", "C", "C", "-", "2", "0", "0">>
      [] str = "MCC-300" -> <<"M", "C", "C", "-", "3", "0", "0">>
      [] str = "MCC-A" -> <<"M", "C", "C", "-", "A">>
      [] str = "MCC-None" -> <<"M", "C", "C", "-", "N", "o", "n", "e">>
      [] str = "SOFT" -> <<"S", "O", "F", "T">>
      [] str = "VENDOR" -> <<"V", "E", "N", "D", "O", "R">>
      [] str = "REV" -> <<"R", "E", "V">>
      [] str = "nm3/h" -> <<"n", "m", "3", "/", "h">>
      [] str = "m3/d" -> <<"m", "3", "/", "d">>
      [] str = "200-B-02" -> <<"2", "0", "0", "-", "B", "-", "0", "2">>
      [] str = "0W+1S" -> <<"0", "W", "+", "1", "S">>
      [] str = "100-P-01" -> <<"1", "0", "0", "-", "P", "-", "0", "1">>
      [] str = "100-P-02" -> <<"1", "0", "0", "-", "P", "-", "0", "2">>
      [] str = "100-P-03" -> <<"1", "0", "0", "-", "P", "-", "0", "3">>
      [] str = "100-P-04" -> <<"1", "0", "0", "-", "P", "-", "0", "4">>
      [] str = "200-B-01" -> <<"2", "0", "0", "-", "B", "-", "0", "1">>
      [] str = "300-AG-01" -> <<"3", "0", "0", "-", "A", "G", "-", "0", "1">>
      [] str = "100-TK-01" -> <<"1", "0", "0", "-", "T", "K", "-", "0", "1">>
      [] str = "500-P-01" -> <<"5", "0", "0", "-", "P", "-", "0", "1">>
      [] str = "500-P-02" -> <<"5", "0", "0", "-", "P", "-", "0", "2">>
      [] str = "100-P-09" -> <<"1", "0", "0", "-", "P", "-", "0", "9">>
      [] str = "200-BL-01" -> <<"2", "0", "0", "-", "B", "L", "-", "0", "1">>
      [] str = "BL" -> <<"B", "L">>
      [] str = "100-P" -> <<"1", "0", "0", "-", "P">>
      [] str = "mixer" -> <<"m", "i", "x", "e", "r">>
      [] str = "Mixer basin" -> <<"M", "i", "x", "e", "r", " ", "b", "a", "s", "i", "n">>
      [] str = "400-FN-01" -> <<"4", "0", "0", "-", "F", "N", "-", "0", "1">>
      [] str = "FN" -> <<"F", "N">>
      [] str = "50 m3/hr @ 20 m w.c." -> <<"5", "0", " ", "m", "3", "/", "h", "r", " ", "@", " ", "2", "0", " ", "m", " ", "w", ".", "c", ".">>
      [] str = "500 m3/h" -> <<"5", "0", "0", " ", "m", "3", "/", "h">>
      [] str = "1.2.3 m3/hr" -> <<"1", ".", "2", ".", "3", " ", "m", "3", "/", "h", "r">>
      [] str = "Soft Starter" -> <<"S", "o", "f", "t", " ", "S", "t", "a", "r", "t", "e", "r">>
      [] str = "VENDOR-VFD" -> <<"V", "E", "N", "D", "O", "R", "-", "V", "F", "D">>
      [] str = "vendor package" -> <<"v", "e", "n", "d", "o", "r", " ", "p", "a", "c", "k", "a", "g", "e">>

RECURSIVE Join(_)
Join(cs) == IF cs = <<>> THEN "" ELSE Head(cs) \o Join(Tail(cs))

LowerLetters ==
    <<"a", "b", "c", "d", "e", "f", "g", "h", "i", "j", "k", "l", "m",
      "n", "o", "p", "q", "r", "s", "t", "u", "v", "w", "x", "y", "z">>

UpperLetters ==
    <<"A", "B", "C", "D", "E", "F", "G", "H", "I", "J", "K", "L", "M",
      "N", "O", "P", "Q", "R", "S", "T", "U", "V", "W", "X", "Y", "Z">>

UpperChar(c) ==
    IF \E i \in 1..26 : LowerLetters[i] = c
    THEN UpperLetters[CHOOSE i \in 1..26 : LowerLetters[i] = c]
    ELSE c

LowerChar(c) ==
    IF \E i \in 1..26 : UpperLetters[i] = c
    THEN LowerLetters[CHOOSE i \in 1..26 : UpperLetters[i] = c]
    ELSE c

\* str.upper() and str.lower(), on characters
UpperChars(cs) == [i \in 1..Len(cs) |-> UpperChar(cs[i])]
LowerChars(cs) == [i \in 1..Len(cs) |-> LowerChar(cs[i])]

\* str.upper() on a string literal
Upper(str) == Join(UpperChars(Chars(str)))

\* sub in cs
Contains(sub, cs) ==
    \E k \in 0..(Len(cs) - Len(sub)) : \A j \in 1..Len(sub) : cs[k + j] = sub[j]

Digits == <<"0", "1", "2", "3", "4", "5", "6", "7", "8", "9">>

IsDigit(c) == \E i \in 1..10 : Digits[i] = c

DigitValue(c) == (CHOOSE i \in 1..10 : Digits[i] = c) - 1

\* int() of a sequence of digits
RECURSIVE ParseInt(_)
ParseInt(cs) ==
    IF cs = <<>> THEN 0
    ELSE 10 * ParseInt(SubSeq(cs, 1, Len(cs) - 1)) + DigitValue(cs[Len(cs)])

\* number of leading digits of cs from position k on
RECURSIVE DigitRun(_, _)
DigitRun(cs, k) == IF k <= Len(cs) /\ IsDigit(cs[k]) THEN 1 + DigitRun(cs, k + 1) ELSE 0

\* str() of a natural number
RECURSIVE IntStr(_)
IntStr(n) == IF n < 10 THEN Digits[n + 1] ELSE IntStr(n \div 10) \o Digits[(n % 10) + 1]

-----------------------------------------------------------------------------
(* Catalogs.  The YAML catalog files are data installed beside the scripts; *)
(* the model carries a sample of each.  Powers in hundredths of a kW,       *)
(* currents in hundredths of an ampere, percentages in hundredths.          *)

\* motor_fla_tables.yaml: iec_60034 / three_phase_50hz, the 400 V column
IecFlaTable == [kw \in {37, 550, 3700} |-> CASE kw = 37 -> 110 [] kw = 550 -> 1150 [] kw = 3700 -> 6900]

\* motor_standards.yaml: iec_efficiency_classes / IE3 / efficiency / 4_pole
EfficiencyTable == [kw \in {37, 550, 3700} |-> CASE kw = 37 -> 7300 [] kw = 550 -> 8960 [] kw = 3700 -> 9390]

\* duty_profiles.yaml: equipment_profiles / <category> / default
ProfileCategories == {"pumps", "blowers"}

DutyProfileCatalog(category) ==
    CASE category = "pumps" ->
            [running_hours_per_day |-> 1600, load_factor_vfd |-> 75, load_factor_dol |-> 85,
             duty_cycle |-> "intermittent"]
      [] category = "blowers" ->
            [running_hours_per_day |-> 2400, load_factor_vfd |-> 80, load_factor_dol |-> 95,
             duty_cycle |-> "continuous"]

-----------------------------------------------------------------------------
(* load_calculations.py *)

\* smallest key of a table that is >= x, or -1 when there is none
CeilingKey(table, x) ==
    IF \E k \in DOMAIN table : k >= x
    THEN CHOOSE k \in DOMAIN table : k >= x /\ \A j \in DOMAIN table : j >= x => k <= j
    ELSE -1

LargestKey(table) == CHOOSE k \in DOMAIN table : \A j \in DOMAIN table : j <= k

\* sqrt(3) * voltage * eff * pf, in hundredths; eff in hundredths of a percent / 100
\* (0.896 is 8960), pf in hundredths
FlaDenominator(voltage, eff, pf) ==
    RoundDiv(RoundDiv(RoundDiv(173205 * voltage, 1000) * eff, 10000) * pf, 100)

\* (kW * 1000) / (sqrt(3) * V * eff * pf), in hundredths of an ampere
FlaFormula(kw, voltage, eff, pf) == RoundDiv(kw * 1000 * 100, FlaDenominator(voltage, eff, pf))

\* _calc_fla_formula: rounded to one decimal
calc_fla_formula(kw, voltage) ==
    LET k == CeilingKey(EfficiencyTable, kw)
        eff == IF k = -1 THEN 9000 ELSE EfficiencyTable[k]
    IN  <<10 * RoundDiv(FlaFormula(kw, voltage, eff, 85), 10), "calculated">>

\* lookup_fla for the IEC standard (lookup_fla_iec): <<FLC, source>>
lookup_fla(power_kw, voltage) ==
    LET k == CeilingKey(IecFlaTable, power_kw)
    IN  IF k = -1 THEN calc_fla_formula(power_kw, voltage)
        ELSE <<IecFlaTable[k], "IEC-60034">>

\* calc_lra
calc_lra(fla, lra_multiplier) == fla * lra_multiplier

\* get_motor_efficiency, 4 poles, IE3
get_motor_efficiency(kw) ==
    LET k == CeilingKey(EfficiencyTable, kw)
    IN  IF k # -1 THEN EfficiencyTable[k] ELSE EfficiencyTable[LargestKey(EfficiencyTable)]

\* calc_pump_brake_kw with sg = 1.0: round(9.81 * Q * H / (3600 * eff), 2)
calc_pump_brake_kw(flow_m3h, head_m, pump_eff) ==
    RoundDiv(981 * RoundDiv(flow_m3h * head_m, 100), 3600 * pump_eff)

\* (p2/p1)^((n-1)/n) - 1 for n = 1.4, in 1/10000; pressures in thousandths of a
\* bar, for the pressure pairs of the model
PolytropicTerm(p1_bar, p2_bar) ==
    CASE p1_bar = 1013 /\ p2_bar = 1600 -> 1395
      [] p1_bar = 1013 /\ p2_bar = 1513 -> 1214

\* calc_blower_brake_kw at 293 K, n = 1.4:
\* 3.5 * p1 * 100 * (Q / 3600) * (293 / 273.15) * (1.01325 / p1) * term / eff,
\* where 3.5 * 100 * (293 / 273.15) * 1.01325 = 380.4
calc_blower_brake_kw(flow_nm3h, p1_bar, p2_bar, blower_eff) ==
    RoundDiv(RoundDiv(flow_nm3h * 3804, 10000) * PolytropicTerm(p1_bar, p2_bar),
             360 * blower_eff)

\* calc_mixer_brake_kw: round(volume * w_per_m3 / 1000, 2), w_per_m3 a whole number
calc_mixer_brake_kw(volume_m3, w_per_m3) == RoundDiv(volume_m3 * w_per_m3, 1000)

\* calc_absorbed_kw: round(brake_kw / (eff_pct / 100), 2)
calc_absorbed_kw(brake_kw, motor_efficiency_pct) == RoundDiv(brake_kw * 10000, motor_efficiency_pct)

\* calc_running_kw: round(absorbed_kw * load_factor, 2)
calc_running_kw(absorbed_kw, load_factor) == RoundDiv(absorbed_kw * load_factor, 100)

\* calc_demand_kw: round(running_kw * diversity_factor, 2)
calc_demand_kw(running_kw, diversity_factor) == RoundDiv(running_kw * diversity_factor, 100)

\* calc_daily_kwh: round(running_kw * running_hours, 2)
calc_daily_kwh(running_kw, running_hours) == RoundDiv(running_kw * running_hours, 100)

\* parse_diversity_from_quantity_note, lines 420-438, on the characters of a note
\* that is not empty: [exc, diversity (hundredths), working, standby]
DiversityOfNote_IgnoresStandby(quantity_note) ==
    LET note == SelectSeq(UpperChars(quantity_note), LAMBDA c : c # " ")
        d1 == DigitRun(note, 1)
    IN  IF d1 >= 1 /\ Len(note) >= d1 + 1 /\ note[d1 + 1] = "W"
        THEN [exc |-> "", diversity |-> 100, working |-> ParseInt(SubSeq(note, 1, d1)),
              standby |-> 0]
        ELSE IF Len(note) > 0 /\ DigitRun(note, 1) = Len(note)
        THEN [exc |-> "", diversity |-> 100, working |-> ParseInt(note), standby |-> 0]
        ELSE [exc |-> "", diversity |-> 100, working |-> 1, standby |-> 0]

DiversityOfNote(quantity_note) ==
    LET note == SelectSeq(UpperChars(quantity_note), LAMBDA c : c # " ")
        d1 == DigitRun(note, 1)
        matched == d1 >= 1 /\ Len(note) >= d1 + 1 /\ note[d1 + 1] = "W"
        d2 == DigitRun(note, d1 + 3)
        group2 == /\ Len(note) >= d1 + 2 /\ note[d1 + 2] = "+"
                  /\ d2 >= 1
                  /\ Len(note) >= d1 + 3 + d2 /\ note[d1 + 3 + d2] = "S"
        working == ParseInt(SubSeq(note, 1, d1))
        standby == IF group2 THEN ParseInt(SubSeq(note, d1 + 3, d1 + 2 + d2)) ELSE 0
        total == working + standby
    IN  IF matched
        THEN [exc |-> "",
              diversity |-> IF total > 0 THEN RoundDiv(working * 100, total) ELSE 100,
              working |-> working, standby |-> standby]
        ELSE IF Len(note) > 0 /\ DigitRun(note, 1) = Len(note)
        THEN [exc |-> "", diversity |-> 100, working |-> ParseInt(note), standby |-> 0]
        ELSE [exc |-> "", diversity |-> 100, working |-> 1, standby |-> 0]

\* lines 417-418: the result for a note that is empty or None
NoNote == [exc |-> "", diversity |-> 100, working |-> 1, standby |-> 0]

\* parse_diversity_from_quantity_note: [exc, diversity (hundredths), working, standby]
parse_diversity_from_quantity_note(quantity_note) ==
    IF ~Truthy(quantity_note) THEN NoNote
    ELSE IF quantity_note.t # "str"
    THEN [exc |-> "AttributeError", diversity |-> 100, working |-> 1, standby |-> 0]
    ELSE DiversityOfNote(Chars(quantity_note.s))

\* get_duty_profile: type_map
TypeMap(code) ==
    CASE code = "P" -> "pumps" [] code = "B" -> "blowers" [] code = "AG" -> "mixers"
      [] code = "MX" -> "mixers" [] code = "SC" -> "screens" [] code = "CN" -> "conveyors"
      [] code = "C" -> "compressors" [] code = "FN" -> "fans"
      [] code = "TH" -> "clarifier_mechanisms" [] code = "CL" -> "clarifier_mechanisms"
      [] OTHER -> "pumps"

\* get_duty_profile without a process unit type: [exc, running_hours_per_day,
\* load_factor, duty_cycle]
get_duty_profile(equipment_type, feeder_type) ==
    LET category == TypeMap(Upper(equipment_type))
        profile == IF category \in ProfileCategories
                   THEN DutyProfileCatalog(category)
                   ELSE [running_hours_per_day |-> 2000, load_factor_vfd |-> 75,
                         load_factor_dol |-> 95, duty_cycle |-> "continuous"]
    IN  IF feeder_type.t # "str"
        THEN [exc |-> "AttributeError", running_hours_per_day |-> 0, load_factor |-> 0,
              duty_cycle |-> ""]
        ELSE [exc |-> "",
              running_hours_per_day |-> profile.running_hours_per_day,
              load_factor |-> IF Upper(feeder_type.s) \in {"VFD", "VFD-EXT"}
                              THEN profile.load_factor_vfd
                              ELSE profile.load_factor_dol,
              duty_cycle |-> profile.duty_cycle]

-----------------------------------------------------------------------------
(* Equipment records.  tag, area and quantity are whole numbers or strings; *)
(* the model reads a YAML equipment list with structured capacity fields    *)
(* and no sizing artifacts in the project directory.                        *)

EquipmentKeys ==
    {"tag", "equipment_type", "power_kw", "feeder_type", "efficiency_pct",
     "fla_nameplate_a", "pf", "quantity", "quantity_note", "area", "mcc_panel",
     "capacity_value", "capacity_unit", "capacity", "description", "head_m",
     "pressure_bar_g"}

\* an equipment record holding only tag and power
Equipment(tag, power_kw) ==
    [k \in EquipmentKeys |->
        CASE k = "tag" -> Str(tag) [] k = "power_kw" -> Num(power_kw) [] OTHER -> Absent]

\* generate_load_list.extract_equipment_type: \d{3}-([A-Z]{1,5})-\d+ at the start
extract_equipment_type(tag) ==
    LET cs == Chars(tag)
        IsUpperLetter(c) == \E i \in 1..26 : UpperLetters[i] = c
        Matches(m) ==
            /\ Len(cs) >= 4 + m + 2
            /\ DigitRun(cs, 1) >= 3 /\ cs[4] = "-"
            /\ \A i \in 5..(4 + m) : IsUpperLetter(cs[i])
            /\ cs[5 + m] = "-" /\ IsDigit(cs[6 + m])
    IN  IF \E m \in 1..5 : Matches(m)
        THEN Join(SubSeq(cs, 5, 4 + CHOOSE m \in 1..5 : Matches(m)))
        ELSE ""

\* generate_load_list: motorized_types
motorized_types == {"P", "PU", "B", "BL", "AG", "MX", "SC", "CN", "C", "FN", "TH", "CF", "BF"}

\* generate_load_list: eq.get("equipment_type", extract_equipment_type(tag))
EquipmentType(eq) == DictGetD(eq, "equipment_type", Str(extract_equipment_type(eq["tag"].s)))

\* the filter to motorized equipment without its test of the rated power
IsMotorized_AnyPower(eq) == EquipmentType(eq).s \in motorized_types

\* generate_load_list: the filter to motorized equipment
IsMotorized(eq) ==
    EquipmentType(eq).s \in motorized_types /\ DictGetD(eq, "power_kw", Num(0)).n > 0

-----------------------------------------------------------------------------
(* extract_duty_points.parse_capacity_string.  A regular expression is a     *)
(* sequence of elements matched from left to right on the characters of the *)
(* text; in these six expressions no element can give back characters to a  *)
(* later one, so the greedy match is the match.  \s is the space character. *)

\* ([\d.]+)
Number == [kind |-> "number", c |-> "", ci |-> FALSE]

\* \s*
Spaces == [kind |-> "spaces", c |-> "", ci |-> FALSE]

\* (?!\s*/)
NotSlashAhead == [kind |-> "not_slash_ahead", c |-> "", ci |-> FALSE]

\* c? ; ci: ignoring case
Optional(c, ci) == [kind |-> "optional", c |-> c, ci |-> ci]

\* the characters of a literal; ci: ignoring case
Literal(chars, ci) == [j \in 1..Len(chars) |-> [kind |-> "literal", c |-> chars[j], ci |-> ci]]

\* the six expressions, in the order parse_capacity_string tries them
Patterns ==
    << \* ([\d.]+)\s*m3/hr?\s*@\s*([\d.]+)\s*m\s*w\.?c\.?   re.I
       <<Number, Spaces>> \o Literal(<<"m", "3", "/", "h">>, TRUE)
          \o <<Optional("r", TRUE), Spaces>> \o Literal(<<"@">>, TRUE)
          \o <<Spaces, Number, Spaces>> \o Literal(<<"m">>, TRUE) \o <<Spaces>>
          \o Literal(<<"w">>, TRUE) \o <<Optional(".", TRUE)>> \o Literal(<<"c">>, TRUE)
          \o <<Optional(".", TRUE)>>,
       \* ([\d.]+)\s*m3/hr?\s*@\s*([\d.]+)\s*bar\s*g?   re.I
       <<Number, Spaces>> \o Literal(<<"m", "3", "/", "h">>, TRUE)
          \o <<Optional("r", TRUE), Spaces>> \o Literal(<<"@">>, TRUE)
          \o <<Spaces, Number, Spaces>> \o Literal(<<"b", "a", "r">>, TRUE)
          \o <<Spaces, Optional("g", TRUE)>>,
       \* ([\d.]+)\s*[Nn]m3/hr?
       <<Number, Spaces>> \o Literal(<<"n">>, TRUE) \o Literal(<<"m", "3", "/", "h">>, FALSE)
          \o <<Optional("r", FALSE)>>,
       \* ([\d.]+)\s*m3/[Dd]ay?   re.I
       <<Number, Spaces>> \o Literal(<<"m", "3", "/", "d", "a">>, TRUE)
          \o <<Optional("y", TRUE)>>,
       \* ([\d.]+)\s*m3/hr?   re.I
       <<Number, Spaces>> \o Literal(<<"m", "3", "/", "h">>, TRUE) \o <<Optional("r", TRUE)>>,
       \* ([\d.]+)\s*m3(?!\s*/)   re.I
       <<Number, Spaces>> \o Literal(<<"m", "3">>, TRUE) \o <<NotSlashAhead>> >>

\* [\d.]
IsNumberChar(c) == IsDigit(c) \/ c = "."

\* length of the run of [\d.] starting at k
RECURSIVE NumberRun(_, _)
NumberRun(cs, k) ==
    IF k <= Len(cs) /\ IsNumberChar(cs[k]) THEN 1 + NumberRun(cs, k + 1) ELSE 0

\* position after \s* from k
RECURSIVE SkipSpaces(_, _)
SkipSpaces(cs, k) == IF k <= Len(cs) /\ cs[k] = " " THEN SkipSpaces(cs, k + 1) ELSE k

\* the character at k is c
CharAt(cs, k, c, ci) ==
    k <= Len(cs) /\ (IF ci THEN LowerChar(cs[k]) = LowerChar(c) ELSE cs[k] = c)

\* one element matched at k: [ok, next, group]
Step(e, cs, k) ==
    CASE e.kind = "number" ->
            [ok |-> NumberRun(cs, k) >= 1, next |-> k + NumberRun(cs, k),
             group |-> SubSeq(cs, k, k + NumberRun(cs, k) - 1)]
      [] e.kind = "spaces" -> [ok |-> TRUE, next |-> SkipSpaces(cs, k), group |-> <<>>]
      [] e.kind = "literal" -> [ok |-> CharAt(cs, k, e.c, e.ci), next |-> k + 1, group |-> <<>>]
      [] e.kind = "optional" ->
            [ok |-> TRUE, next |-> IF CharAt(cs, k, e.c, e.ci) THEN k + 1 ELSE k,
             group |-> <<>>]
      [] e.kind = "not_slash_ahead" ->
            [ok |-> ~CharAt(cs, SkipSpaces(cs, k), "/", FALSE), next |-> k, group |-> <<>>]

NoMatch == [ok |-> FALSE, groups |-> <<>>]

\* the elements of pattern from j on matched at k, groups being those captured so far
RECURSIVE MatchFrom(_, _, _, _, _)
MatchFrom(pattern, cs, k, j, groups) ==
    IF j > Len(pattern) THEN [ok |-> TRUE, groups |-> groups]
    ELSE LET step == Step(pattern[j], cs, k)
         IN  IF ~step.ok THEN NoMatch
             ELSE MatchFrom(pattern, cs, step.next, j + 1,
                        IF pattern[j].kind = "number" THEN Append(groups, step.group)
                        ELSE groups)

\* the match m when it succeeded, otherwise the other one
OrElse(m, other) == IF m.ok THEN m ELSE other

\* re.search: the match at the leftmost position from k on where the pattern matches
RECURSIVE Search(_, _, _)
Search(pattern, cs, k) ==
    IF k > Len(cs) THEN NoMatch
    ELSE OrElse(MatchFrom(pattern, cs, k, 1, <<>>), Search(pattern, cs, k + 1))

\* "if m:" for pattern i, otherwise what the later patterns give
IfMatch(i, m, later) == IF m.ok THEN [pattern |-> i, groups |-> m.groups] ELSE later

\* the first pattern from i on that matches: [pattern, groups]; pattern 0 when none
RECURSIVE FirstMatch(_, _)
FirstMatch(cs, i) ==
    IF i > Len(Patterns) THEN [pattern |-> 0, groups |-> <<>>]
    ELSE IfMatch(i, Search(Patterns[i], cs, 1), FirstMatch(cs, i + 1))

\* float() accepts a group of [\d.]+ with at most one point and at least one digit
IsFloat(g) ==
    /\ Cardinality({k \in 1..Len(g) : g[k] = "."}) <= 1
    /\ \E k \in 1..Len(g) : IsDigit(g[k])

\* the fraction digits of frac appended to acc, up to the given number of places
RECURSIVE Scaled(_, _, _, _)
Scaled(frac, places, acc, j) ==
    IF j > places THEN acc
    ELSE Scaled(frac, places, 10 * acc + (IF j <= Len(frac) THEN DigitValue(frac[j]) ELSE 0),
                j + 1)

\* float(g) * 10^places, digits beyond places dropped
ParseFixed(g, places) ==
    LET points == {k \in 1..Len(g) : g[k] = "."}
        point == IF points = {} THEN Len(g) + 1 ELSE CHOOSE k \in points : TRUE
    IN  Scaled(SubSeq(g, point + 1, Len(g)), places, ParseInt(SubSeq(g, 1, point - 1)), 1)

\* the fields parse_capacity_string returns when pattern i is the first to match
PatternFields(i, g) ==
    CASE i = 1 -> [flow_m3h |-> Num(ParseFixed(g[1], 2)), head_m |-> Num(ParseFixed(g[2], 2))]
      [] i = 2 -> [flow_m3h |-> Num(ParseFixed(g[1], 2)), p1_bar |-> Num(1013),
                   p2_bar |-> Num(1013 + ParseFixed(g[2], 3))]
      [] i = 3 -> [flow_nm3h |-> Num(ParseFixed(g[1], 2))]
      [] i = 4 -> [flow_m3h |-> Num(RoundDiv(ParseFixed(g[1], 2), 24))]
      [] i = 5 -> [flow_m3h |-> Num(ParseFixed(g[1], 2))]
      [] i = 6 -> [volume_m3 |-> Num(ParseFixed(g[1], 2))]

\* the result for the first match m: float() raises on a malformed group
MatchFields(m) ==
    IF m.pattern = 0 THEN [exc |-> "", fields |-> <<>>]
    ELSE IF \E j \in 1..Len(m.groups) : ~IsFloat(m.groups[j])
    THEN [exc |-> "ValueError", fields |-> <<>>]
    ELSE [exc |-> "", fields |-> PatternFields(m.pattern, m.groups)]

\* parse_capacity_string on the characters of the text: [exc, fields]
parse_capacity_string(cs) == MatchFields(FirstMatch(cs, 1))

-----------------------------------------------------------------------------
(* extract_duty_points.py *)

DutyPointKeys ==
    {"equipment_tag", "equipment_type", "duty_point_found", "source", "flow_m3h",
     "flow_nm3h", "volume_m3", "head_m", "p1_bar", "p2_bar", "installed_kw", "brake_kw",
     "pump_eff", "blower_eff", "w_per_m3"}

\* d.get(k, default) on an artifact, whose values are lists and dicts
ArtifactGet(artifact, k, default) == IF k \in DOMAIN artifact THEN artifact[k] ELSE default

\* tag and (equipment_tag in tag or tag in equipment_tag)
TagMatches(tag, equipment_tag) ==
    /\ Truthy(tag)
    /\ \/ Contains(Chars(equipment_tag), Chars(tag.s))
       \/ Contains(Chars(tag.s), Chars(equipment_tag))

\* index of the first element of a list that satisfies Test, 0 when none does
FirstIndex(list, Test(_)) ==
    IF \E i \in 1..Len(list) : Test(list[i])
    THEN CHOOSE i \in 1..Len(list) : Test(list[i]) /\ \A j \in 1..(i - 1) : ~Test(list[j])
    ELSE 0

\* a duty point dict with the given fields
DutyPoint(fields) == [k \in DutyPointKeys |-> IF k \in DOMAIN fields THEN fields[k] ELSE Absent]

\* extract_pump_duty_points: the duty point, None without a matching record
extract_pump_duty_points(artifact, equipment_tag) ==
    LET pumps == ArtifactGet(artifact, "pumps", ArtifactGet(artifact, "pump_sizing", <<>>))
        Match(r) == TagMatches(DictGetD(r, "tag", DictGetD(r, "equipment_tag", Str(""))),
                               equipment_tag)
        p == FirstIndex(pumps, Match)
        equipment == ArtifactGet(artifact, "equipment", <<>>)
        GeneralMatch(r) == TagMatches(DictGetD(r, "tag", Str("")), equipment_tag)
        Sized(r) == GeneralMatch(r) /\ Truthy(DictGet(r, "flow")) /\ Truthy(DictGet(r, "head"))
        e == FirstIndex(equipment, Sized)
    IN  IF p # 0
        THEN DutyPoint(
                [flow_m3h |-> DictGetD(pumps[p], "flow_m3h", DictGetD(pumps[p], "flow", Num(0))),
                 head_m |-> DictGetD(pumps[p], "head_m",
                                     DictGetD(pumps[p], "head", DictGetD(pumps[p], "tdh", Num(0)))),
                 pump_eff |-> DictGetD(pumps[p], "efficiency",
                                       DictGetD(pumps[p], "pump_eff", Num(70))),
                 brake_kw |-> DictGetD(pumps[p], "brake_kw", DictGetD(pumps[p], "power_kw", None)),
                 source |-> DictGetD(pumps[p], "_source", Str("sizing_artifact"))])
        ELSE IF e # 0
        THEN DutyPoint(
                [flow_m3h |-> DictGet(equipment[e], "flow"),
                 head_m |-> DictGet(equipment[e], "head"),
                 pump_eff |-> DictGetD(equipment[e], "efficiency", Num(70)),
                 brake_kw |-> DictGet(equipment[e], "brake_kw"),
                 source |-> Str("equipment_list")])
        ELSE None

\* extract_blower_duty_points; "aeration" holds the list of blower records
extract_blower_duty_points(artifact, equipment_tag) ==
    LET blowers == ArtifactGet(artifact, "aeration", ArtifactGet(artifact, "blower_sizing", <<>>))
        Match(r) == TagMatches(DictGetD(r, "tag", DictGetD(r, "equipment_tag", Str(""))),
                               equipment_tag)
        b == FirstIndex(blowers, Match)
        p1 == DictGetD(blowers[b], "inlet_pressure_bar", Num(1013))
        air == artifact["air_demand"]
        total_flow == DictGetD(air, "total_nm3h", DictGetD(air, "design_airflow", Num(0)))
    IN  IF b # 0
        THEN DutyPoint(
                [flow_nm3h |-> DictGetD(blowers[b], "airflow_nm3h",
                                        DictGetD(blowers[b], "flow_nm3h", Num(0))),
                 p1_bar |-> p1,
                 p2_bar |-> DictGetD(blowers[b], "outlet_pressure_bar",
                                     Num(p1.n + DictGetD(blowers[b], "delivery_pressure_bar",
                                                         Num(500)).n)),
                 blower_eff |-> DictGetD(blowers[b], "efficiency",
                                         DictGetD(blowers[b], "blower_eff", Num(70))),
                 brake_kw |-> DictGetD(blowers[b], "brake_kw",
                                       DictGetD(blowers[b], "power_kw", None)),
                 source |-> DictGetD(blowers[b], "_source", Str("sizing_artifact"))])
        ELSE IF "air_demand" \in DOMAIN artifact /\ Truthy(total_flow)
        THEN DutyPoint(
                [flow_nm3h |-> total_flow, p1_bar |-> Num(1013),
                 p2_bar |-> DictGetD(air, "discharge_pressure", Num(1600)),
                 blower_eff |-> Num(70), brake_kw |-> None, source |-> Str("air_demand")])
        ELSE None

\* extract_mixer_duty_points
extract_mixer_duty_points(artifact, equipment_tag) ==
    LET mixers == ArtifactGet(artifact, "mixers", ArtifactGet(artifact, "agitators", <<>>))
        Match(r) == TagMatches(DictGetD(r, "tag", DictGetD(r, "equipment_tag", Str(""))),
                               equipment_tag)
        m == FirstIndex(mixers, Match)
        tanks == ArtifactGet(artifact, "tanks", <<>>)
        TankMatch(r) ==
            LET tag == Chars(DictGetD(r, "tag", Str("")).s)
            IN  Contains(Chars("mixer"), LowerChars(tag)) \/ Contains(Chars(equipment_tag), tag)
        t == FirstIndex(tanks, TankMatch)
    IN  IF m # 0
        THEN DutyPoint(
                [volume_m3 |-> DictGetD(mixers[m], "volume_m3",
                                        DictGetD(mixers[m], "tank_volume", Num(0))),
                 w_per_m3 |-> DictGetD(mixers[m], "power_density",
                                       DictGetD(mixers[m], "w_per_m3", Num(8))),
                 brake_kw |-> DictGetD(mixers[m], "brake_kw", DictGetD(mixers[m], "power_kw", None)),
                 source |-> DictGetD(mixers[m], "_source", Str("sizing_artifact"))])
        ELSE IF t # 0
        THEN DutyPoint(
                [volume_m3 |-> DictGetD(tanks[t], "volume_m3", Num(0)),
                 w_per_m3 |-> DictGetD(tanks[t], "mixing_intensity", Num(8)),
                 brake_kw |-> None, source |-> Str("tank_data")])
        ELSE None

\* extract_duty_point: the extractor for a type, "" when the type has none
Extractor(equipment_type) ==
    LET type_upper == Upper(equipment_type)
    IN  IF type_upper \in {"P", "PU"} THEN "extract_pump_duty_points"
        ELSE IF type_upper \in {"B", "BL"} THEN "extract_blower_duty_points"
        ELSE IF type_upper \in {"AG", "MX"} THEN "extract_mixer_duty_points"
        ELSE ""

\* extract_duty_point, the body of the try for one artifact file: [exc, duty_point].
\* A file is unreadable (open or the parser raises), holds a list instead of a
\* dict (artifact.get raises), or holds a dict.
TryArtifactFile(file, equipment_tag, equipment_type) ==
    IF file.kind = "unreadable" THEN [exc |-> file.error, duty_point |-> None]
    ELSE IF file.kind = "list" THEN [exc |-> "AttributeError", duty_point |-> None]
    ELSE [exc |-> "",
          duty_point |->
             CASE Extractor(equipment_type) = "extract_pump_duty_points" ->
                     extract_pump_duty_points(file.content, equipment_tag)
               [] Extractor(equipment_type) = "extract_blower_duty_points" ->
                     extract_blower_duty_points(file.content, equipment_tag)
               [] Extractor(equipment_type) = "extract_mixer_duty_points" ->
                     extract_mixer_duty_points(file.content, equipment_tag)]

\* any(v for k, v in duty_point.items() if k != "source" and v)
HasData(duty_point) ==
    duty_point # None /\ \E k \in DutyPointKeys \ {"source"} : Truthy(duty_point[k])

\* dict.update: the keys of the update replace those of d
Update(d, update) == [k \in DOMAIN d |-> IF HasKey(update, k) THEN update[k] ELSE d[k]]

\* extract_all_duty_points, lines 337-345: the type code of an equipment record
\* (on tags of the form NNN-XX-NN the tag pattern agrees with extract_equipment_type)
DutyPointType(eq) ==
    IF Truthy(DictGetD(eq, "equipment_type", Str("")))
    THEN eq["equipment_type"].s
    ELSE extract_equipment_type(eq["tag"].s)

\* lines 351-363: the fallback from the structured capacity fields
StructuredCapacity(eq) ==
    LET unit == LowerChars(Chars(eq["capacity_unit"].s))
        value == eq["capacity_value"]
        Has(sub) == Contains(Chars(sub), unit)
    IN  DutyPoint(
            IF Has("m3/h") THEN [flow_m3h |-> value, source |-> Str("capacity_structured")]
            ELSE IF Has("m3/d")
            THEN [flow_m3h |-> Num(RoundDiv(value.n, 24)), source |-> Str("capacity_structured")]
            ELSE IF Has("nm3/h") THEN [flow_nm3h |-> value, source |-> Str("capacity_structured")]
            ELSE IF Has("m3") THEN [volume_m3 |-> value, source |-> Str("capacity_structured")]
            ELSE [source |-> Str("capacity_structured")])

\* lines 366-368 and 378-380: a text field of the equipment record, parsed when
\* it is not empty
ParsedText(text) ==
    IF Truthy(text) THEN parse_capacity_string(Chars(text.s))
    ELSE [exc |-> "", fields |-> <<>>]

\* lines 369-371 and 381-383: fallback.update(parsed) with its source, when the
\* text gave fields; [exc, fields]
UpdateParsed(fallback, parsed, source) ==
    IF parsed.exc # "" THEN [exc |-> parsed.exc, fields |-> fallback]
    ELSE IF DOMAIN parsed.fields = {} THEN [exc |-> "", fields |-> fallback]
    ELSE [exc |-> "",
          fields |-> Update(Update(fallback, parsed.fields), [source |-> Str(source)])]

\* lines 393-394: for blowers a flow in m3/h is taken as Nm3/h
BlowerReinterpret_KeepBoth(eq_type, fallback) ==
    IF Upper(eq_type) \in {"B", "BL"} /\ HasKey(fallback, "flow_m3h")
       /\ ~HasKey(fallback, "flow_nm3h")
    THEN [fallback EXCEPT !["flow_nm3h"] = fallback["flow_m3h"]]
    ELSE fallback

BlowerReinterpret(eq_type, fallback) ==
    IF Upper(eq_type) \in {"B", "BL"} /\ HasKey(fallback, "flow_m3h")
       /\ ~HasKey(fallback, "flow_nm3h")
    THEN [fallback EXCEPT !["flow_nm3h"] = fallback["flow_m3h"], !["flow_m3h"] = Absent]
    ELSE fallback

\* lines 351-371: the fallback from the capacity fields; [exc, fields]
CapacityFallback(eq) ==
    IF Truthy(DictGet(eq, "capacity_value")) /\ Truthy(DictGet(eq, "capacity_unit"))
    THEN [exc |-> "", fields |-> StructuredCapacity(eq)]
    ELSE UpdateParsed(DutyPoint(<<>>), ParsedText(DictGetD(eq, "capacity", Str(""))),
                      "capacity_parsed")

\* lines 376-383: the description is parsed when the capacity gave no flow or volume
DescriptionFallback(eq, capacity) ==
    IF \/ capacity.exc # ""
       \/ \E k \in {"flow_m3h", "flow_nm3h", "volume_m3"} : HasKey(capacity.fields, k)
    THEN capacity
    ELSE UpdateParsed(capacity.fields, ParsedText(DictGetD(eq, "description", Str(""))),
                      "description_parsed")

\* lines 347-383: the fallback derived from the capacity data; [exc, fields]
DerivedFallback(eq) == DescriptionFallback(eq, CapacityFallback(eq))

\* lines 386-390: head and pressure read from the equipment record
DirectFields(eq, fallback) ==
    LET head == IF Truthy(DictGet(eq, "head_m")) THEN [head_m |-> eq["head_m"]] ELSE <<>>
        pressure == IF Truthy(DictGet(eq, "pressure_bar_g"))
                    THEN [p1_bar |-> Num(1013), p2_bar |-> Num(1013 + eq["pressure_bar_g"].n)]
                    ELSE <<>>
    IN  Update(Update(fallback, head), pressure)

\* lines 396-397: the installed power
InstalledPower(eq, fallback) ==
    IF Truthy(DictGet(eq, "power_kw")) THEN Update(fallback, [installed_kw |-> eq["power_kw"]])
    ELSE fallback

\* lines 385-397: the fields added to the derived fallback
CompleteFallback(eq, derived) ==
    IF derived.exc # "" THEN derived
    ELSE [exc |-> "",
          fields |-> InstalledPower(eq,
                        BlowerReinterpret(DutyPointType(eq),
                                          DirectFields(eq, derived.fields)))]

\* extract_all_duty_points, lines 347-397: the fallback data of one equipment
\* record; [exc, fields], the key "source" standing for "_source"
FallbackData(eq) == CompleteFallback(eq, DerivedFallback(eq))

\* extract_duty_point, lines 213-218: the result before any source is tried
InitialResult(equipment_tag, equipment_type) ==
    DutyPoint([equipment_tag |-> equipment_tag, equipment_type |-> Str(equipment_type),
               duty_point_found |-> Bool(FALSE), source |-> None])

\* extract_duty_point, lines 238-240: the result taken from an artifact
ArtifactResult(res, duty_point, artifact_path) ==
    Update(Update(res, duty_point),
           [duty_point_found |-> Bool(TRUE), source |-> Str(artifact_path)])

\* extract_duty_point, lines 246-252: the result after the fallback
FallbackResult(res, fallback) ==
    LET any == \E k \in DutyPointKeys : fallback[k] # Absent
        found == \E k \in DutyPointKeys \ {"source"} : fallback[k] # Absent
    IN  IF ~any THEN res
        ELSE Update(Update(res, [k \in DutyPointKeys \ {"source"} |-> fallback[k]]),
                    [duty_point_found |-> Bool(found),
                     source |-> DictGetD(fallback, "source", Str("equipment_list"))])

\* extract_duty_point for an equipment record and its fallback, in a project
\* without sizing artifacts; [exc, duty_point]
FromFallback(eq, fallback) ==
    IF fallback.exc # "" THEN [exc |-> fallback.exc, duty_point |-> <<>>]
    ELSE [exc |-> "",
          duty_point |-> FallbackResult(InitialResult(eq["tag"], DutyPointType(eq)),
                                        fallback.fields)]

\* extract_all_duty_points / extract_duty_point for one equipment record of a
\* project without sizing artifacts; [exc, duty_point]
extract_duty_point(eq) == FromFallback(eq, FallbackData(eq))

-----------------------------------------------------------------------------
(* generate_load_list.process_load, IEC motors at 400 V / 50 Hz *)

LoadKeys ==
    {"equipment_tag", "area", "equipment_type", "rated_kw", "installed_kw",
     "efficiency_pct", "pf", "service_factor", "flc_table_a", "fla_nameplate_a", "fla",
     "lra", "fla_source", "feeder_type", "brake_kw", "absorbed_kw", "duty_cycle",
     "running_hours_per_day", "load_factor", "diversity_factor", "quantity",
     "quantity_note", "running_kw", "demand_kw", "daily_kwh", "mcc_panel",
     "duty_point_source"}

voltage == 400

\* round(x, 1) of a value in hundredths
Round1(x) == 10 * RoundDiv(x, 10)

\* str() of the values the model formats into a panel tag
Format(v) == IF v.t = "num" THEN IntStr(v.n) ELSE IF v.t = "none" THEN "None" ELSE v.s

\* the nameplate FLA taken from the table FLC
NameplateFla_FromTable(equipment, installed_kw, efficiency_pct) ==
    lookup_fla(installed_kw, voltage)[1]

\* process_load: the nameplate FLA, given or estimated from power and efficiency
NameplateFla(equipment, installed_kw, efficiency_pct) ==
    IF DictGet(equipment, "fla_nameplate_a") # None
    THEN equipment["fla_nameplate_a"].n
    ELSE FlaFormula(installed_kw, voltage,
                    IF efficiency_pct # 0 THEN efficiency_pct ELSE 9000,
                    DictGetD(equipment, "pf", Num(85)).n)

\* process_load: brake power from the type's formula, None when the duty point lacks
\* the data (lines 367-384)
DutyBrakeKw(eq_type, duty_point) ==
    LET flow == DictGetD(duty_point, "flow_m3h", Num(0))
        head == DictGetD(duty_point, "head_m", Num(0))
        nflow == DictGetD(duty_point, "flow_nm3h", Num(0))
        volume == DictGetD(duty_point, "volume_m3", Num(0))
    IN  IF eq_type \in {"P", "PU"}
        THEN IF Truthy(flow) /\ Truthy(head)
             THEN Num(calc_pump_brake_kw(flow.n, head.n,
                                         DictGetD(duty_point, "pump_eff", Num(70)).n))
             ELSE None
        ELSE IF eq_type \in {"B", "BL"}
        THEN IF Truthy(nflow)
             THEN Num(calc_blower_brake_kw(nflow.n, DictGetD(duty_point, "p1_bar", Num(1013)).n,
                                           DictGetD(duty_point, "p2_bar", Num(1600)).n,
                                           DictGetD(duty_point, "blower_eff", Num(70)).n))
             ELSE None
        ELSE IF eq_type \in {"AG", "MX"}
        THEN IF Truthy(volume)
             THEN Num(calc_mixer_brake_kw(volume.n, DictGetD(duty_point, "w_per_m3", Num(8)).n))
             ELSE None
        ELSE None

\* brake power resolved with the formula ahead of the duty point's own brake_kw
ResolveBrakeKw_FormulaFirst(eq_type, duty_point, installed_kw) ==
    IF DutyBrakeKw(eq_type, duty_point) # None THEN DutyBrakeKw(eq_type, duty_point).n
    ELSE IF DictGet(duty_point, "brake_kw") # None THEN duty_point["brake_kw"].n
    ELSE RoundDiv(installed_kw * 85, 100)

\* process_load: brake power (lines 365-394)
ResolveBrakeKw(eq_type, duty_point, installed_kw) ==
    IF DictGet(duty_point, "brake_kw") # None THEN duty_point["brake_kw"].n
    ELSE IF DutyBrakeKw(eq_type, duty_point) # None THEN DutyBrakeKw(eq_type, duty_point).n
    ELSE RoundDiv(installed_kw * 85, 100)

\* process_load: [exc, load]; exc names the exception raised, "" when the load is
\* returned
\* _get_motor_fla_tables, _get_motor_standards, _get_duty_profiles: _load_catalog
\* opens the file of a catalog only while its module global is still None
GetCatalogs(names, loaded, reads) ==
    [c \in CatalogNames |-> IF c \in names \ loaded THEN reads[c] + 1 ELSE reads[c]]

\* the catalogs process_load looks up for an item: lookup_fla reads the FLA tables,
\* _calc_fla_formula and get_motor_efficiency the motor standards, and
\* get_duty_profile, reached unless the FLA estimate raised, the duty profiles
ProcessLoadCatalogs(equipment) ==
    LET installed_kw == DictGetD(equipment, "power_kw", Num(0))
    IN  {"motor_fla_tables"}
        \cup (IF CeilingKey(IecFlaTable, installed_kw.n) = -1
                 \/ ~Truthy(DictGet(equipment, "efficiency_pct"))
              THEN {"motor_standards"} ELSE {})
        \cup (IF DictGet(equipment, "fla_nameplate_a") = None
                 /\ DictGetD(equipment, "pf", Num(85)).t # "num"
              THEN {} ELSE {"duty_profiles"})

process_load(equipment, duty_point) ==
    LET tag == DictGetD(equipment, "tag", Str(""))
        eq_type == EquipmentType(equipment)
        installed_kw == DictGetD(equipment, "power_kw", Num(0))
        feeder_type == DictGetD(equipment, "feeder_type", Str("DOL"))
        flc == lookup_fla(installed_kw.n, voltage)
        efficiency_pct == IF Truthy(DictGet(equipment, "efficiency_pct"))
                          THEN equipment["efficiency_pct"].n
                          ELSE get_motor_efficiency(installed_kw.n)
        fla_nameplate == NameplateFla(equipment, installed_kw.n, efficiency_pct)
        lra == calc_lra(flc[1], 6)
        brake_kw == ResolveBrakeKw(eq_type.s, duty_point, installed_kw.n)
        absorbed_kw == calc_absorbed_kw(brake_kw, efficiency_pct)
        profile == get_duty_profile(eq_type.s, feeder_type)
        quantity_note == DictGetD(equipment, "quantity_note", Str(""))
        quantity == DictGetD(equipment, "quantity", Num(1))
        parsed == parse_diversity_from_quantity_note(quantity_note)
        diversity_factor == IF ~Truthy(quantity_note) /\ quantity.n > 1 THEN 100
                            ELSE parsed.diversity
        running_kw == calc_running_kw(absorbed_kw, profile.load_factor)
        area == DictGetD(equipment, "area", Num(100))
        load ==
            [k \in LoadKeys |->
                CASE k = "equipment_tag" -> tag
                  [] k = "area" -> area
                  [] k = "equipment_type" -> eq_type
                  [] k \in {"rated_kw", "installed_kw"} -> installed_kw
                  [] k = "efficiency_pct" -> Num(efficiency_pct)
                  [] k = "pf" -> DictGetD(equipment, "pf", Num(85))
                  [] k = "service_factor" -> Num(100)
                  [] k \in {"flc_table_a", "fla"} -> Num(Round1(flc[1]))
                  [] k = "fla_nameplate_a" -> Num(Round1(fla_nameplate))
                  [] k = "lra" -> Num(Round1(lra))
                  [] k = "fla_source" -> Str(flc[2])
                  [] k = "feeder_type" -> feeder_type
                  [] k = "brake_kw" -> IF brake_kw # 0 THEN Num(brake_kw) ELSE None
                  [] k = "absorbed_kw" -> Num(absorbed_kw)
                  [] k = "duty_cycle" -> Str(profile.duty_cycle)
                  [] k = "running_hours_per_day" -> Num(profile.running_hours_per_day)
                  [] k = "load_factor" -> Num(profile.load_factor)
                  [] k = "diversity_factor" -> Num(diversity_factor)
                  [] k = "quantity" -> quantity
                  [] k = "quantity_note" ->
                        IF Truthy(quantity_note) THEN quantity_note
                        ELSE Str(Format(quantity) \o "W")
                  [] k = "running_kw" -> Num(running_kw)
                  [] k = "demand_kw" -> Num(calc_demand_kw(running_kw, diversity_factor))
                  [] k = "daily_kwh" -> Num(calc_daily_kwh(running_kw, profile.running_hours_per_day))
                  [] k = "mcc_panel" -> DictGetD(equipment, "mcc_panel", Str("MCC-" \o Format(area)))
                  [] k = "duty_point_source" -> DictGet(duty_point, "source")]
    IN  IF DictGet(equipment, "fla_nameplate_a") = None /\ DictGetD(equipment, "pf", Num(85)).t # "num"
        THEN [exc |-> "TypeError", load |-> <<>>]
        ELSE IF profile.exc # "" THEN [exc |-> profile.exc, load |-> <<>>]
        ELSE IF parsed.exc # "" THEN [exc |-> parsed.exc, load |-> <<>>]
        ELSE IF ~Truthy(quantity_note) /\ quantity.t # "num"
        THEN [exc |-> "TypeError", load |-> <<>>]
        ELSE [exc |-> "", load |-> load]

-----------------------------------------------------------------------------
(* mcc_aggregation.py *)

\* assign_panels_by_area, one load
AssignPanel(load) ==
    IF Truthy(DictGet(load, "mcc_panel")) THEN load
    ELSE [load EXCEPT !["mcc_panel"] = Str("MCC-" \o Format(DictGetD(load, "area", Num(100))))]

assign_panels_by_area(ls) == [i \in 1..Len(ls) |-> AssignPanel(ls[i])]

\* STANDARD_BUS_RATINGS
STANDARD_BUS_RATINGS == <<400, 630, 800, 1000, 1600, 2000, 2500, 3200>>

\* STANDARD_BREAKER_RATINGS
STANDARD_BREAKER_RATINGS ==
    <<100, 125, 160, 200, 250, 315, 400, 500, 630, 800, 1000, 1250, 1600, 2000, 2500,
      3200, 4000>>

\* duty_profiles.yaml: panel_diversity / by_feeder_count, as <<min, max, diversity>>
PanelDiversityCatalog == <<<<1, 5, 90>>, <<6, 10, 80>>>>

\* get_panel_diversity_factor without a process type
get_panel_diversity_factor(feeder_count) ==
    LET hits == {i \in 1..Len(PanelDiversityCatalog) :
                    PanelDiversityCatalog[i][1] <= feeder_count
                    /\ feeder_count <= PanelDiversityCatalog[i][2]}
    IN  IF hits = {} THEN 80
        ELSE PanelDiversityCatalog[CHOOSE i \in hits : \A j \in hits : i <= j][3]

\* first rating with rating >= demand_amps * 1.25, 0 when there is none
FirstRating(ratings, demand_amps) ==
    LET fits == {i \in 1..Len(ratings) : ratings[i] * 10000 >= demand_amps * 125}
    IN  IF fits = {} THEN 0 ELSE ratings[CHOOSE i \in fits : \A j \in fits : i <= j]

\* select_bus_rating
select_bus_rating(demand_amps) ==
    IF FirstRating(STANDARD_BUS_RATINGS, demand_amps) # 0
    THEN IntStr(FirstRating(STANDARD_BUS_RATINGS, demand_amps)) \o "A"
    ELSE ">" \o IntStr(STANDARD_BUS_RATINGS[Len(STANDARD_BUS_RATINGS)]) \o "A"

\* select_main_breaker (amperes, whole)
select_main_breaker(demand_amps) ==
    IF FirstRating(STANDARD_BREAKER_RATINGS, demand_amps) # 0
    THEN FirstRating(STANDARD_BREAKER_RATINGS, demand_amps)
    ELSE STANDARD_BREAKER_RATINGS[Len(STANDARD_BREAKER_RATINGS)]

\* calculate_demand_amps, three phases: kVA * 1000 / (sqrt(3) * V)
calculate_demand_amps(demand_kva) == RoundDiv(demand_kva * 100000, RoundDiv(173205 * voltage, 1000))

\* ordering of the characters that occur in panel tags (ASCII order)
Alphabet == <<"-">> \o Digits \o UpperLetters \o LowerLetters

CharCode(c) == CHOOSE i \in 1..Len(Alphabet) : Alphabet[i] = c

\* a < b for strings, as Python compares them
RECURSIVE CharsLess(_, _)
CharsLess(a, b) ==
    IF b = <<>> THEN FALSE
    ELSE IF a = <<>> THEN TRUE
    ELSE IF Head(a) # Head(b) THEN CharCode(Head(a)) < CharCode(Head(b))
    ELSE CharsLess(Tail(a), Tail(b))

\* sorted(S) for a set of strings
RECURSIVE SortedStrings(_)
SortedStrings(S) ==
    IF S = {} THEN <<>>
    ELSE LET least == CHOOSE x \in S : \A y \in S \ {x} : CharsLess(Chars(x), Chars(y))
         IN  <<least>> \o SortedStrings(S \ {least})

\* the feeder counter, with VENDOR tested ahead of VFD and SOFT
FeederKind_VendorFirst(load) ==
    LET feeder == UpperChars(Chars(DictGetD(load, "feeder_type", Str("DOL")).s))
    IN  IF Contains(Chars("VENDOR"), feeder) THEN "vendor"
        ELSE IF Contains(Chars("VFD"), feeder) THEN "vfd"
        ELSE IF Contains(Chars("SOFT"), feeder) THEN "soft_starter"
        ELSE "dol"

\* aggregate_by_panel: which feeder counter a load increments
FeederKind(load) ==
    LET feeder == UpperChars(Chars(DictGetD(load, "feeder_type", Str("DOL")).s))
    IN  IF Contains(Chars("VFD"), feeder) THEN "vfd"
        ELSE IF Contains(Chars("SOFT"), feeder) THEN "soft_starter"
        ELSE IF Contains(Chars("VENDOR"), feeder) THEN "vendor"
        ELSE "dol"

\* aggregate_by_panel: the first run of three digits in the panel tag, None without one
PanelArea(panel_tag) ==
    LET cs == Chars(panel_tag)
        starts == {k \in 1..Len(cs) : DigitRun(cs, k) >= 3}
    IN  IF starts = {} THEN None
        ELSE LET k == CHOOSE i \in starts : \A j \in starts : i <= j
             IN  Num(ParseInt(SubSeq(cs, k, k + 2)))

\* the loads of a panel, with a load that follows another in its panel left out
PanelMembers_FirstOnly(ls, panel_tag) ==
    SubSeq(SelectSeq(ls, LAMBDA l : DictGetD(l, "mcc_panel", Str("MCC-UNASSIGNED")).s = panel_tag),
           1, 1)

\* aggregate_by_panel: panels[panel_tag]["loads"], the loads grouped under a panel tag
PanelMembers(ls, panel_tag) ==
    SelectSeq(ls, LAMBDA l : DictGetD(l, "mcc_panel", Str("MCC-UNASSIGNED")).s = panel_tag)

\* aggregate_by_panel: the summary of one panel
PanelSummary(ls, panel_tag) ==
    LET mine == PanelMembers(ls, panel_tag)
        Total(key) == SumSeq([i \in 1..Len(mine) |-> DictGetD(mine[i], key, Num(0)).n])
        running_kw == Total("running_kw")
        pf_weighted_sum ==
            SumSeq([i \in 1..Len(mine) |->
                       DictGetD(mine[i], "pf", Num(85)).n * DictGetD(mine[i], "running_kw", Num(0)).n])
        Count(kind) == Cardinality({i \in 1..Len(mine) : FeederKind(mine[i]) = kind})
        feeder_count == Count("dol") + Count("vfd") + Count("soft_starter") + Count("vendor")
        panel_diversity == get_panel_diversity_factor(feeder_count)
        demand_with_diversity == RoundDiv(Total("demand_kw") * panel_diversity, 100)
        raw_pf == IF running_kw > 0 THEN RoundDiv(pf_weighted_sum, running_kw) ELSE 85
        avg_pf == IF raw_pf < 70 THEN 70 ELSE IF raw_pf > 100 THEN 100 ELSE raw_pf
        demand_kva == RoundDiv(demand_with_diversity * 100, avg_pf)
        demand_amps == calculate_demand_amps(demand_kva)
    IN  [panel_tag |-> panel_tag,
         area |-> PanelArea(panel_tag),
         supply_voltage |-> voltage,
         connected_kw |-> Round1(Total("installed_kw")),
         running_kw |-> Round1(running_kw),
         demand_kw |-> Round1(Total("demand_kw")),
         panel_diversity |-> panel_diversity,
         demand_with_diversity_kw |-> Round1(demand_with_diversity),
         average_pf |-> avg_pf,
         demand_kva |-> Round1(demand_kva),
         demand_amps |-> Round1(demand_amps),
         feeder_counts |-> [kind \in {"dol", "vfd", "soft_starter", "vendor"} |-> Count(kind)],
         feeder_count |-> feeder_count,
         main_breaker_a |-> select_main_breaker(demand_amps),
         bus_rating |-> select_bus_rating(demand_amps),
         load_tags |-> [i \in 1..Len(mine) |-> DictGet(mine[i], "equipment_tag")]]

\* aggregate_by_panel
aggregate_by_panel(ls) ==
    LET tags == SortedStrings({DictGetD(ls[i], "mcc_panel", Str("MCC-UNASSIGNED")).s : i \in 1..Len(ls)})
    IN  [i \in 1..Len(tags) |-> PanelSummary(ls, tags[i])]

\* calculate_plant_totals
calculate_plant_totals(ps) ==
    LET Total(key) == SumSeq([i \in 1..Len(ps) |-> ps[i][key]])
    IN  [total_connected_kw |-> Round1(Total("connected_kw")),
         total_running_kw |-> Round1(Total("running_kw")),
         total_demand_kw |-> Round1(Total("demand_with_diversity_kw")),
         plant_diversity |-> 85,
         plant_demand_kw |-> Round1(RoundDiv(Total("demand_with_diversity_kw") * 85, 100)),
         panel_count |-> Len(ps)]

-----------------------------------------------------------------------------
(* Fault current: generate_load_list.get_fault_current_config, fault_current.py *)

\* calc_preliminary_fault_current: kA from transformer kVA and impedance (%)
calc_preliminary_fault_current(transformer_kva, transformer_z_pct) ==
    LET i_rated == RoundDiv(transformer_kva * 10000, RoundDiv(173205 * voltage, 10000))
    IN  Round1(RoundDiv(i_rated * 10, transformer_z_pct))

\* get_default_fault_current("mcc_bus")["available_fault_ka"]
DefaultFaultKa == 5000

\* get_fault_current_config: the fallback when the tier-2 modules did not import
FallbackFaultKa == 3500

get_fault_current_config(md, modules_available) ==
    LET user_fault_ka == DictGet(md, "available_fault_ka")
        fault_source == DictGetD(md, "fault_current_source", Str("assumption"))
        xfmr_kva == DictGet(md, "transformer_kva")
    IN  IF user_fault_ka # None
        THEN [at_mcc_bus_ka |-> user_fault_ka, source |-> fault_source,
              verified |-> PyEq(fault_source, Str("verified"))]
        ELSE IF Truthy(xfmr_kva) /\ modules_available
        THEN [at_mcc_bus_ka |-> Num(calc_preliminary_fault_current(
                                    xfmr_kva.n, DictGetD(md, "transformer_z_pct", Num(575)).n)),
              source |-> Str("calculated_from_transformer"), verified |-> FALSE]
        ELSE [at_mcc_bus_ka |-> Num(IF modules_available THEN DefaultFaultKa ELSE FallbackFaultKa),
              source |-> Str("conservative_default"), verified |-> FALSE]

-----------------------------------------------------------------------------
(* mcc_bucket_schedule.py.  Device sizing inside a bucket is not modelled;  *)
(* a bucket carries its identity, unit type and assumption flags.           *)

\* determine_unit_type
determine_unit_type(feeder_type) ==
    LET feeder_upper == UpperChars(Chars(feeder_type))
    IN  IF Contains(Chars("VFD"), feeder_upper) THEN "VFD"
        ELSE IF Contains(Chars("SOFT"), feeder_upper) THEN "SOFT_STARTER"
        ELSE IF Contains(Chars("REV"), feeder_upper) THEN "FVR"
        ELSE IF Join(feeder_upper) \in {"DOL", "FVNR"} THEN "FVNR"
        ELSE IF Contains(Chars("VENDOR"), feeder_upper) THEN "FEEDER"
        ELSE "FVNR"

\* f"{panel_tag}-{bucket_number:02d}"
BucketId(panel_tag, bucket_number) ==
    panel_tag \o "-" \o (IF bucket_number < 10 THEN "0" ELSE "") \o IntStr(bucket_number)

\* generate_bucket
generate_bucket(load, panel_tag, bucket_number) ==
    [bucket_id |-> BucketId(panel_tag, bucket_number),
     panel_tag |-> panel_tag,
     unit_type |-> determine_unit_type(DictGetD(load, "feeder_type", Str("DOL")).s),
     motor_tag |-> DictGetD(load, "equipment_tag", Str("")),
     motor_rated_kw |-> DictGetD(load, "rated_kw", DictGetD(load, "installed_kw", Num(0))),
     assumption_flags |->
        [cable_length_assumed |-> TRUE,
         fault_current_assumed |-> ~PyEq(DictGet(load, "fault_current_source"), Str("verified")),
         motor_data_from_nameplate |-> PyEq(DictGet(load, "fla_source"), Str("nameplate"))]]

\* generate_mcc_schedule: number of spare buckets generate_load_list asks for
include_spares == 2

\* generate_mcc_schedule: a spare bucket
SpareBucket(panel_tag, bucket_number) ==
    [bucket_id |-> BucketId(panel_tag, bucket_number), panel_tag |-> panel_tag,
     unit_type |-> "SPARE"]

\* generate_mcc_schedule(...)["buckets"]
generate_mcc_schedule(panel_loads, panel_tag) ==
    [i \in 1..(Len(panel_loads) + include_spares) |->
        IF i <= Len(panel_loads) THEN generate_bucket(panel_loads[i], panel_tag, i)
        ELSE SpareBucket(panel_tag, i)]

\* generate_load_list: loads of one panel
PanelLoads(ls, panel_tag) == SelectSeq(ls, LAMBDA l : PyEq(DictGet(l, "mcc_panel"), Str(panel_tag)))

\* generate_load_list: the buckets of panels k.. in panel order
RECURSIVE AllBuckets(_, _, _)
AllBuckets(ps, ls, k) ==
    IF k > Len(ps) THEN <<>>
    ELSE (IF PanelLoads(ls, ps[k].panel_tag) # <<>>
          THEN generate_mcc_schedule(PanelLoads(ls, ps[k].panel_tag), ps[k].panel_tag)
          ELSE <<>>)
         \o AllBuckets(ps, ls, k + 1)

-----------------------------------------------------------------------------
(* generate_load_list: the report *)

\* Python "a and b" for a boolean a
PyAnd(a, b) == IF a THEN b ELSE Bool(FALSE)

\* plant capacity in MLD when neither the caller nor the metadata gives one
DefaultCapacityMld == 10

\* assumption_tracking with readiness read off the tier number alone
AssumptionTracking_TierOnly(md, config, eligible_tier) ==
    [cable_lengths_assumed |-> Bool(~Truthy(DictGetD(md, "cable_lengths_verified", Bool(FALSE)))),
     cable_lengths_source |-> DictGetD(md, "cable_lengths_source", Str("estimated")),
     fault_current_assumed |-> Bool(~config.verified),
     fault_current_source |-> config.source,
     motor_data_verified |-> Bool(eligible_tier >= 3),
     takeoff_ready |-> Bool(eligible_tier >= 2),
     sccr_ready |-> Bool(eligible_tier >= 3)]

\* the report's assumption_tracking block
AssumptionTracking(md, config, eligible_tier) ==
    [cable_lengths_assumed |-> Bool(~Truthy(DictGetD(md, "cable_lengths_verified", Bool(FALSE)))),
     cable_lengths_source |-> DictGetD(md, "cable_lengths_source", Str("estimated")),
     fault_current_assumed |-> Bool(~config.verified),
     fault_current_source |-> config.source,
     motor_data_verified |-> Bool(eligible_tier >= 3),
     takeoff_ready |-> PyAnd(eligible_tier >= 2, DictGetD(md, "cable_lengths_verified", Bool(FALSE))),
     sccr_ready |-> PyAnd(eligible_tier >= 3, Bool(config.verified))]

\* the report before the tier-2 sections are added
BaseOutput(md, ls, ps, config, eligibility) ==
    LET totals == calculate_plant_totals(ps)
        daily_kwh == SumSeq([i \in 1..Len(ls) |-> DictGetD(ls[i], "daily_kwh", Num(0)).n])
    IN  [k \in {"version", "project_id", "electrical_basis", "output_tier",
                "assumption_tracking", "loads", "mcc_panels", "energy_summary"} |->
            CASE k = "version" -> Str("2.0.0")
              [] k = "project_id" -> DictGetD(md, "project_id", Str("UNKNOWN"))
              [] k = "electrical_basis" ->
                    [motor_standard |-> "IEC", lv_voltage |-> voltage,
                     available_fault_current |-> config]
              [] k = "output_tier" ->
                    [tier |-> eligibility.eligible_tier,
                     tier_name |-> eligibility.tier_name,
                     completeness_pct |-> eligibility.overall_completeness_pct,
                     tier_gates |-> eligibility.tier_gates]
              [] k = "assumption_tracking" ->
                    AssumptionTracking(md, config, eligibility.eligible_tier)
              [] k = "loads" -> ls
              [] k = "mcc_panels" -> ps
              [] k = "energy_summary" ->
                    [total_connected_kw |-> totals.total_connected_kw,
                     total_running_kw |-> totals.total_running_kw,
                     total_demand_kw |-> totals.plant_demand_kw,
                     daily_kwh |-> Round1(daily_kwh),
                     specific_energy_kwh_m3 |-> RoundDiv(daily_kwh * 10, DefaultCapacityMld * 1000)]]

\* output[key] = value
SetKey(d, key, value) == [k \in DOMAIN d \cup {key} |-> IF k = key THEN value ELSE d[k]]

\* the tier-2 guard of generate_load_list
Tier2Guard_ModulesOnly(eligible_tier, modules_available) == modules_available

Tier2Guard(eligible_tier, modules_available) == eligible_tier >= 2 /\ modules_available

-----------------------------------------------------------------------------
(* generate_load_list, step by step *)

\* lines 503-517: read the equipment list, keep the motorized items
FilterMotorized ==
    /\ pc = "generate_load_list"
    /\ motor_equipment' = SelectSeq(equipment_list, IsMotorized)
    /\ pc' = "extract_all_duty_points"
    /\ UNCHANGED <<metadata, loads, tier_results, tier_eligibility, MCC_MODULES_AVAILABLE,
                   equipment_list, duty_points, panels, fault_current_config, output,
                   calls, raised, extract_vars, call_vars, catalog_vars>>

\* line 520: tag -> duty point; a later record with the same tag replaces an earlier one
ExtractAllDutyPoints ==
    /\ pc = "extract_all_duty_points"
    /\ LET Extracted(i) == extract_duty_point(motor_equipment[i])
           failing == {i \in 1..Len(motor_equipment) : Extracted(i).exc # ""}
       IN  IF failing # {}
           THEN /\ raised' = Extracted(CHOOSE i \in failing : \A j \in failing : i <= j).exc
                /\ pc' = "raised"
                /\ UNCHANGED duty_points
           ELSE /\ duty_points' =
                      [t \in {motor_equipment[i]["tag"].s : i \in 1..Len(motor_equipment)} |->
                          LET last == CHOOSE i \in 1..Len(motor_equipment) :
                                          /\ motor_equipment[i]["tag"].s = t
                                          /\ \A j \in (i + 1)..Len(motor_equipment) :
                                                motor_equipment[j]["tag"].s # t
                          IN  Extracted(last).duty_point]
                /\ pc' = "process_load"
                /\ UNCHANGED raised
    /\ UNCHANGED <<metadata, loads, tier_results, tier_eligibility, MCC_MODULES_AVAILABLE,
                   equipment_list, motor_equipment, panels, fault_current_config, output,
                   calls, extract_vars, call_vars, catalog_vars>>

\* lines 524-528: one iteration of the loop over the motorized items
ProcessLoad ==
    /\ pc = "process_load"
    /\ Len(loads) < Len(motor_equipment)
    /\ LET eq == motor_equipment[Len(loads) + 1]
           processed == process_load(eq, duty_points[eq["tag"].s])
       IN  IF processed.exc # ""
           THEN /\ raised' = processed.exc
                /\ pc' = "raised"
                /\ UNCHANGED loads
           ELSE /\ loads' = Append(loads, processed.load)
                /\ UNCHANGED <<pc, raised>>
    /\ LET names == ProcessLoadCatalogs(motor_equipment[Len(loads) + 1])
       IN  /\ catalog_reads' = GetCatalogs(names, loaded_catalogs, catalog_reads)
           /\ loaded_catalogs' = loaded_catalogs \cup names
    /\ UNCHANGED <<metadata, tier_results, tier_eligibility, MCC_MODULES_AVAILABLE,
                   equipment_list, motor_equipment, duty_points, panels,
                   fault_current_config, output, calls, extract_vars, call_vars>>

\* line 531
AssignPanelsByArea ==
    /\ pc = "process_load"
    /\ Len(loads) = Len(motor_equipment)
    /\ loads' = assign_panels_by_area(loads)
    /\ pc' = "aggregate_by_panel"
    /\ UNCHANGED <<metadata, tier_results, tier_eligibility, run_vars, extract_vars,
                   call_vars, catalog_vars>>

\* lines 534-542; get_panel_diversity_factor (mcc_aggregation.py line 56) calls the
\* _load_catalog of its own module, which opens duty_profiles.yaml on every call,
\* once for each panel summary
AggregateByPanel ==
    /\ pc = "aggregate_by_panel"
    /\ panels' = aggregate_by_panel(loads)
    /\ catalog_reads' = [catalog_reads EXCEPT !["duty_profiles"] = @ + Len(panels')]
    /\ pc' = "get_fault_current_config"
    /\ UNCHANGED <<metadata, loads, tier_results, tier_eligibility, MCC_MODULES_AVAILABLE,
                   equipment_list, motor_equipment, duty_points, fault_current_config,
                   output, calls, raised, extract_vars, call_vars, loaded_catalogs>>

\* lines 545-546
GetFaultCurrentConfig ==
    /\ pc = "get_fault_current_config"
    /\ fault_current_config' = get_fault_current_config(metadata, MCC_MODULES_AVAILABLE)
    /\ pc' = "calculate_tier_eligibility"
    /\ UNCHANGED <<metadata, loads, tier_results, tier_eligibility, MCC_MODULES_AVAILABLE,
                   equipment_list, motor_equipment, duty_points, panels, output, calls,
                   raised, extract_vars, call_vars, catalog_vars>>

\* lines 550-646: the base report, then the tier-2 guard
BuildOutput ==
    /\ pc = "gate_done"
    /\ output' = BaseOutput(metadata, loads, panels, fault_current_config, tier_eligibility)
    /\ pc' = IF Tier2Guard(tier_eligibility.eligible_tier, MCC_MODULES_AVAILABLE)
             THEN "generate_mcc_schedule" ELSE "return"
    /\ UNCHANGED <<metadata, loads, tier_results, tier_eligibility, MCC_MODULES_AVAILABLE,
                   equipment_list, motor_equipment, duty_points, panels,
                   fault_current_config, calls, raised, extract_vars, call_vars,
                   catalog_vars>>

\* a tier-2 section: call the calculator, store its result under key.  What the
\* cable schedule, plant summary, transformer sizing and starting analysis contain
\* is not modelled; each section records the loads it was computed from.
Tier2Section(at, calculator, key, value, next) ==
    /\ pc = at
    /\ calls' = Append(calls, calculator)
    /\ output' = SetKey(output, key, value)
    /\ pc' = next
    /\ UNCHANGED <<metadata, loads, tier_results, tier_eligibility, MCC_MODULES_AVAILABLE,
                   equipment_list, motor_equipment, duty_points, panels,
                   fault_current_config, raised, extract_vars, call_vars,
                   catalog_vars>>

\* lines 651-687
GenerateMccBuckets ==
    Tier2Section("generate_mcc_schedule", "generate_mcc_schedule", "mcc_buckets",
                 AllBuckets(panels, loads, 1), "generate_all_cable_schedules")

\* lines 690-707
GenerateCableSchedule ==
    Tier2Section("generate_all_cable_schedules", "generate_all_cable_schedules",
                 "cable_schedule", [total_cables |-> Len(loads)], "calc_plant_load_summary")

\* lines 710-716
PlantLoadSummary ==
    Tier2Section("calc_plant_load_summary", "calc_plant_load_summary", "plant_load_summary",
                 [process_loads |-> Len(loads)], "size_transformer")

\* lines 719-731
TransformerSizing ==
    Tier2Section("size_transformer", "size_transformer", "transformers",
                 <<[transformer_tag |-> "TX-001"]>>, "check_sequential_starting")

\* lines 734-751
MotorStartingAnalysis ==
    Tier2Section("check_sequential_starting", "check_sequential_starting",
                 "motor_starting_analysis", [motors |-> Len(loads)], "return")

-----------------------------------------------------------------------------
(* Equipment lists and metadata handed to generate_load_list *)

\* r with the given fields set
With(r, fields) == [k \in DOMAIN r |-> IF k \in DOMAIN fields THEN fields[k] ELSE r[k]]

\* a pump with every optional field supplied from its nameplate
NameplatePump ==
    With(Equipment("100-P-01", 550),
         [feeder_type |-> Str("DOL"), efficiency_pct |-> Num(8960),
          fla_nameplate_a |-> Num(1040), mcc_panel |-> Str("MCC-100"), area |-> Num(100),
          capacity_value |-> Num(5000), capacity_unit |-> Str("m3/h"), head_m |-> Num(2000),
          quantity_note |-> Str("2W+1S")])

\* a blower known only by tag and power
BareBlower == Equipment("200-B-01", 3700)

\* a pump whose optional fields are present but null
NullFieldsPump ==
    With(Equipment("100-P-02", 550),
         [efficiency_pct |-> None, fla_nameplate_a |-> None, mcc_panel |-> None,
          quantity_note |-> None, capacity_value |-> None, capacity_unit |-> None,
          head_m |-> None, pressure_bar_g |-> None])

\* a pump whose feeder type is null
NullFeederPump == With(Equipment("100-P-03", 550), [feeder_type |-> None])

\* a small pump with an empty feeder type
EmptyFeederPump == With(Equipment("100-P-04", 37), [feeder_type |-> Str("")])

\* a mixer on a drive, sized from its tank volume
VfdMixer ==
    With(Equipment("300-AG-01", 550),
         [feeder_type |-> Str("vfd"), area |-> Num(300), capacity_value |-> Num(50000),
          capacity_unit |-> Str("m3")])

\* a blower on a soft starter, with a duty point in Nm3/h and a delivery pressure
\* (thousandths of a bar)
DutyBlower ==
    With(Equipment("200-B-02", 3700),
         [feeder_type |-> Str("Soft Starter"), capacity_value |-> Num(100000),
          capacity_unit |-> Str("Nm3/h"),
          pressure_bar_g |-> Num(500), area |-> Num(200), quantity_note |-> Str("1w + 1s")])

\* a tank: not motorized
Tank == Equipment("100-TK-01", 0)

\* a pump on a drive that comes with a vendor package
VendorDrivePump ==
    With(Equipment("500-P-01", 750), [feeder_type |-> Str("VENDOR-VFD"),
                                      mcc_panel |-> Str("MCC-A")])

\* a pump fed as part of a vendor package, listed as a standby unit only
VendorPump ==
    With(Equipment("500-P-02", 750), [feeder_type |-> Str("vendor package"),
                                      mcc_panel |-> Str("MCC-A"),
                                      quantity_note |-> Str("0W+1S")])

\* a pump listed without a motor rating
UnratedPump == Equipment("100-P-09", 0)

EquipmentSamples ==
    {NameplatePump, BareBlower, NullFieldsPump, NullFeederPump, EmptyFeederPump, VfdMixer,
     DutyBlower, Tank, VendorDrivePump, VendorPump, UnratedPump}

Metadata(fields) == [k \in MetaKeys |-> IF k \in DOMAIN fields THEN fields[k] ELSE Absent]

RunMetadata ==
    {EmptyMetadata,
     \* fault current and cable lengths both verified, fault value supplied
     Metadata([fault_current_source |-> Str("verified"), cable_lengths_verified |-> Bool(TRUE),
               available_fault_ka |-> Num(2500), cable_lengths_source |-> Str("layout")]),
     \* both marks set, but no fault current value
     Metadata([fault_current_source |-> Str("verified"), cable_lengths_verified |-> Bool(TRUE)]),
     \* a fault value the user has not verified, next to the data of the transformer
     Metadata([available_fault_ka |-> Num(2500), transformer_kva |-> Num(100000)]),
     \* a transformer to calculate the fault current from
     Metadata([transformer_kva |-> Num(100000)]),
     \* cable lengths verified only
     Metadata([cable_lengths_verified |-> Bool(TRUE), cable_lengths_source |-> Str("layout")])}

Init ==
    /\ pc = "generate_load_list"
    /\ \E n \in 0..MaxEquipment : equipment_list \in [1..n -> EquipmentSamples]
    /\ metadata \in RunMetadata
    /\ MCC_MODULES_AVAILABLE \in BOOLEAN
    /\ loads = <<>>
    /\ tier_results = NoResults
    /\ tier_eligibility = NoEligibility
    /\ motor_equipment = <<>>
    /\ duty_points = <<>>
    /\ panels = <<>>
    /\ fault_current_config = NoConfig
    /\ output = NoOutput
    /\ calls = <<>>
    /\ raised = ""
    /\ sizing_artifacts = <<>>
    /\ artifact_index = 0
    /\ fallback_data = <<>>
    /\ result = <<>>
    /\ call = ""
    /\ args = <<>>
    /\ returned = <<>>
    /\ loaded_catalogs = {}
    /\ catalog_reads = [c \in CatalogNames |-> 0]

Next ==
    \/ FilterMotorized
    \/ ExtractAllDutyPoints
    \/ ProcessLoad
    \/ AssignPanelsByArea
    \/ AggregateByPanel
    \/ GetFaultCurrentConfig
    \/ CheckEachLoad
    \/ DetermineTier
    \/ BuildOutput
    \/ GenerateMccBuckets
    \/ GenerateCableSchedule
    \/ PlantLoadSummary
    \/ TransformerSizing
    \/ MotorStartingAnalysis

Spec == Init /\ [][Next]_vars

-----------------------------------------------------------------------------
(* Duty-point extraction for one motorized item of a project that holds      *)
(* sizing artifacts: extract_all_duty_points and extract_duty_point, then   *)
(* process_load on the duty point.                                          *)

MaxArtifacts == 2

\* a sizing artifact file
ArtifactFile(path, kind, error, content) ==
    [path |-> path, kind |-> kind, error |-> error, content |-> content]

\* a file that find_sizing_artifacts listed and that is gone when it is opened
MissingFile == ArtifactFile("sizing/removed.json", "unreadable", "FileNotFoundError", <<>>)

\* a file whose content is not valid JSON
MalformedFile == ArtifactFile("sizing/broken.json", "unreadable", "JSONDecodeError", <<>>)

\* a file holding a JSON array
ListFile == ArtifactFile("sizing/list.json", "list", "", <<>>)

\* pump sizing: one pump with its brake power, one group record without
PumpSizingFile ==
    ArtifactFile("sizing/pumps.json", "dict", "",
        [pumps |-> <<[tag |-> Str("100-P-01"), flow_m3h |-> Num(5000), head_m |-> Num(2000),
                      brake_kw |-> Num(400)],
                     [tag |-> Str("100-P"), flow |-> Num(3000), head |-> Num(1500)]>>])

\* the pumps of a general equipment table
EquipmentTableFile ==
    ArtifactFile("sizing/equipment.json", "dict", "",
        [equipment |-> <<[tag |-> Str("100-P-03"), flow |-> Num(4000)],
                         [tag |-> Str("100-P-04"), flow |-> Num(1000), head |-> Num(1000)]>>])

\* aeration design: one tagged blower
AerationFile ==
    ArtifactFile("sizing/aeration.json", "dict", "",
        [aeration |-> <<[tag |-> Str("200-B-01"), airflow_nm3h |-> Num(100000),
                         delivery_pressure_bar |-> Num(500)]>>])

\* process air demand of the plant, no blower records
AirDemandFile ==
    ArtifactFile("sizing/air_demand.json", "dict", "",
        [air_demand |-> [total_nm3h |-> Num(200000)]])

\* mixer sizing with a tank table
MixerSizingFile ==
    ArtifactFile("sizing/mixing.json", "dict", "",
        [mixers |-> <<[tag |-> Str("300-AG-01"), volume_m3 |-> Num(50000),
                       power_density |-> Num(10)]>>,
         tanks |-> <<[tag |-> Str("Mixer basin"), volume_m3 |-> Num(20000)]>>])

ArtifactSamples ==
    {MissingFile, MalformedFile, ListFile, PumpSizingFile, EquipmentTableFile, AerationFile,
     AirDemandFile, MixerSizingFile}

\* a pump described by a capacity text with flow and head
TextPump ==
    With(Equipment("100-P-03", 550), [capacity |-> Str("50 m3/hr @ 20 m w.c.")])

\* a pump whose capacity text holds a malformed number
BadTextPump == With(Equipment("100-P-04", 550), [capacity |-> Str("1.2.3 m3/hr")])

\* a blower whose flow is given in m3/h in its description
TextBlower == With(Equipment("200-B-02", 3700), [description |-> Str("500 m3/h")])

\* a blower whose structured capacity is in m3/h
StructuredBlower ==
    With(Equipment("200-B-01", 3700), [capacity_value |-> Num(100000),
                                       capacity_unit |-> Str("m3/h")])

\* a fan: motorized, of a type without an extractor
Fan == Equipment("400-FN-01", 750)

\* a blower tagged with the type code BL, its structured capacity in Nm3/h
CodeBlBlower ==
    With(Equipment("200-BL-01", 3700), [capacity_value |-> Num(100000),
                                        capacity_unit |-> Str("Nm3/h")])

\* a fan whose structured capacity is in Nm3/h
RatedFan ==
    With(Equipment("400-FN-01", 750), [capacity_value |-> Num(100000),
                                       capacity_unit |-> Str("Nm3/h")])

ExtractSamples ==
    {eq \in EquipmentSamples
             \cup {TextPump, BadTextPump, TextBlower, StructuredBlower, Fan, CodeBlBlower,
                   RatedFan} :
        IsMotorized(eq)}

\* the item whose duty point is extracted
Item == motor_equipment[1]

InitExtract ==
    /\ pc = "extract_all_duty_points"
    /\ \E eq \in ExtractSamples : equipment_list = <<eq>> /\ motor_equipment = <<eq>>
    /\ \E n \in 0..MaxArtifacts : sizing_artifacts \in [1..n -> ArtifactSamples]
    /\ metadata = EmptyMetadata
    /\ MCC_MODULES_AVAILABLE = FALSE
    /\ loads = <<>>
    /\ tier_results = NoResults
    /\ tier_eligibility = NoEligibility
    /\ duty_points = <<>>
    /\ panels = <<>>
    /\ fault_current_config = NoConfig
    /\ output = NoOutput
    /\ calls = <<>>
    /\ raised = ""
    /\ artifact_index = 0
    /\ fallback_data = <<>>
    /\ result = <<>>
    /\ call = ""
    /\ args = <<>>
    /\ returned = <<>>
    /\ loaded_catalogs = {}
    /\ catalog_reads = [c \in CatalogNames |-> 0]

extract_unchanged ==
    <<metadata, loads, tier_results, tier_eligibility, MCC_MODULES_AVAILABLE, equipment_list,
      motor_equipment, panels, fault_current_config, output, calls, sizing_artifacts,
      call_vars, catalog_vars>>

\* extract_all_duty_points, lines 336-397: the fallback of the item is prepared
PrepareFallback ==
    /\ pc = "extract_all_duty_points"
    /\ LET fallback == FallbackData(Item)
       IN  IF fallback.exc # ""
           THEN /\ raised' = fallback.exc
                /\ pc' = "raised"
                /\ UNCHANGED fallback_data
           ELSE /\ fallback_data' = fallback.fields
                /\ pc' = "extract_duty_point"
                /\ UNCHANGED raised
    /\ UNCHANGED <<duty_points, artifact_index, result, extract_unchanged>>

\* extract_duty_point, lines 213-232: the result is set up and the extractor chosen
StartExtract ==
    /\ pc = "extract_duty_point"
    /\ result' = InitialResult(Item["tag"], DutyPointType(Item))
    /\ artifact_index' = 1
    /\ pc' = IF Extractor(DutyPointType(Item)) # "" THEN "search_artifacts" ELSE "use_fallback"
    /\ UNCHANGED <<duty_points, raised, fallback_data, extract_unchanged>>

\* except Exception: every exception of the try body is caught
ExceptException_OSErrorOnly(exc) == exc \in {"FileNotFoundError"}

ExceptException(exc) == exc # ""

\* lines 233-243: one iteration of the loop over the artifacts
TryArtifact ==
    /\ pc = "search_artifacts"
    /\ artifact_index <= Len(sizing_artifacts)
    /\ LET file == sizing_artifacts[artifact_index]
           tried == TryArtifactFile(file, Item["tag"].s, DutyPointType(Item))
       IN  IF tried.exc # ""
           THEN IF ExceptException(tried.exc)
                THEN /\ artifact_index' = artifact_index + 1
                     /\ UNCHANGED <<pc, result, raised>>
                ELSE /\ raised' = tried.exc
                     /\ pc' = "raised"
                     /\ UNCHANGED <<artifact_index, result>>
           ELSE IF HasData(tried.duty_point)
           THEN /\ result' = ArtifactResult(result, tried.duty_point, file.path)
                /\ pc' = "extracted"
                /\ UNCHANGED <<artifact_index, raised>>
           ELSE /\ artifact_index' = artifact_index + 1
                /\ UNCHANGED <<pc, result, raised>>
    /\ UNCHANGED <<duty_points, fallback_data, extract_unchanged>>

\* line 233: the loop ends without a duty point
ArtifactsExhausted ==
    /\ pc = "search_artifacts"
    /\ artifact_index > Len(sizing_artifacts)
    /\ pc' = "use_fallback"
    /\ UNCHANGED <<duty_points, raised, artifact_index, fallback_data, result,
                   extract_unchanged>>

\* lines 246-252: the fallback data, when there is any, becomes the result
UseFallback ==
    /\ pc = "use_fallback"
    /\ result' = FallbackResult(result, fallback_data)
    /\ pc' = "extracted"
    /\ UNCHANGED <<duty_points, raised, artifact_index, fallback_data, extract_unchanged>>

\* extract_all_duty_points line 400 and generate_load_list lines 524-528: the duty
\* point is stored under the tag and the item is processed
ProcessExtracted ==
    /\ pc = "extracted"
    /\ duty_points' = (Item["tag"].s :> result)
    /\ LET processed == process_load(Item, result)
       IN  IF processed.exc # ""
           THEN /\ raised' = processed.exc
                /\ pc' = "raised"
                /\ UNCHANGED loads
           ELSE /\ loads' = <<processed.load>>
                /\ pc' = "processed"
                /\ UNCHANGED raised
    /\ LET names == ProcessLoadCatalogs(Item)
       IN  /\ catalog_reads' = GetCatalogs(names, loaded_catalogs, catalog_reads)
           /\ loaded_catalogs' = loaded_catalogs \cup names
    /\ UNCHANGED <<metadata, tier_results, tier_eligibility, MCC_MODULES_AVAILABLE,
                   equipment_list, motor_equipment, panels, fault_current_config, output,
                   calls, extract_vars, call_vars>>

NextExtract ==
    \/ PrepareFallback
    \/ StartExtract
    \/ TryArtifact
    \/ ArtifactsExhausted
    \/ UseFallback
    \/ ProcessExtracted

SpecExtract == InitExtract /\ [][NextExtract]_vars

-----------------------------------------------------------------------------
(* motor_starting.py.  Powers in hundredths of a kW, starting kVA whole,      *)
(* impedances in hundredths of a percent, voltage dips in tenths of a percent *)

\* check_sequential_starting: max_voltage_dip_pct, 15 %
max_voltage_dip_pct == 150

\* calc_motor_starting_current: starting kVA = sqrt(3) x V x LRA / 1000 with
\* LRA = 6 x FLA and FLA at efficiency 0.90 and power factor 0.85, rounded
StartingKva(motor_kw) == RoundDiv(motor_kw * 4, 51)

\* check_sequential_starting: the starting method read off the feeder type
StartingMethod(motor) ==
    IF Contains(Chars("VFD"), UpperChars(Chars(motor.feeder_type))) THEN "VFD"
    ELSE IF Contains(Chars("SOFT"), UpperChars(Chars(motor.feeder_type))) THEN "SOFT_STARTER"
    ELSE "DOL"

\* analyze_motor_starting: starting_method_factors, in percent
MethodFactor(method) ==
    CASE method = "DOL" -> 100 [] method = "SOFT_STARTER" -> 40 [] method = "VFD" -> 0

\* analyze_motor_starting with calc_voltage_dip: dip % = starting kVA / source kVA x Z %
analyze_motor_starting(motor_kw, source_kva, source_impedance_pct, method) ==
    [effective_starting_kva |-> RoundDiv(StartingKva(motor_kw) * MethodFactor(method), 100),
     voltage_dip_pct |->
         RoundDiv(StartingKva(motor_kw) * MethodFactor(method) * source_impedance_pct,
                  1000 * source_kva)]

\* check_sequential_starting: the entry of motor_analyses for one motor
MotorAnalysis(motor, analysis) ==
    [tag |-> motor.equipment_tag,
     rated_kw |-> motor.rated_kw,
     starting_method |-> StartingMethod(motor),
     starting_kva |-> analysis.effective_starting_kva,
     individual_voltage_dip_pct |-> analysis.voltage_dip_pct]

MotorAnalyses(motors, source_kva, source_impedance_pct) ==
    [i \in 1..Len(motors) |->
        MotorAnalysis(motors[i],
                      analyze_motor_starting(motors[i].rated_kw, source_kva,
                                             source_impedance_pct, StartingMethod(motors[i])))]

\* check_sequential_starting: the position of largest_motor, the first motor of the
\* greatest rated power; 0 while largest_motor is None
LargestMotor(motor_analyses) ==
    LET greatest == {i \in 1..Len(motor_analyses) :
                        /\ motor_analyses[i].rated_kw > 0
                        /\ \A j \in 1..Len(motor_analyses) :
                              motor_analyses[j].rated_kw <= motor_analyses[i].rated_kw}
    IN  IF greatest = {} THEN 0 ELSE CHOOSE i \in greatest : \A j \in greatest : i <= j

\* s without its i-th element
Remove(s, i) == SubSeq(s, 1, i - 1) \o SubSeq(s, i + 1, Len(s))

\* the first position of the greatest starting kVA
FirstGreatest(motor_analyses) ==
    CHOOSE i \in 1..Len(motor_analyses) :
        /\ \A j \in 1..Len(motor_analyses) :
              motor_analyses[j].starting_kva <= motor_analyses[i].starting_kva
        /\ \A j \in 1..(i - 1) :
              motor_analyses[j].starting_kva < motor_analyses[i].starting_kva

\* motor_analyses.sort(key=starting_kva, reverse=True): descending, equal keys in
\* their original order
RECURSIVE SortByStartingKva(_)
SortByStartingKva(motor_analyses) ==
    IF motor_analyses = <<>> THEN <<>>
    ELSE <<motor_analyses[FirstGreatest(motor_analyses)]>>
         \o SortByStartingKva(Remove(motor_analyses, FirstGreatest(motor_analyses)))

\* starting_kva + group_kva_used <= max_group_kva, where
\* max_group_kva = source_kva x (max_voltage_dip_pct / 100) / (source_impedance_pct / 100)
FitsGroup(kva, source_kva, source_impedance_pct) ==
    kva * source_impedance_pct <= source_kva * max_voltage_dip_pct * 10

\* check_sequential_starting: the starting group given to each motor of the sorted
\* list from position k on
RECURSIVE StartingGroups(_, _, _, _, _, _)
StartingGroups(sorted, k, current_group, group_kva_used, source_kva, source_impedance_pct) ==
    IF k > Len(sorted) THEN <<>>
    ELSE IF sorted[k].starting_method = "VFD"
    THEN <<current_group>>
         \o StartingGroups(sorted, k + 1, current_group, group_kva_used, source_kva,
                           source_impedance_pct)
    ELSE IF FitsGroup(sorted[k].starting_kva + group_kva_used, source_kva,
                      source_impedance_pct)
    THEN <<current_group>>
         \o StartingGroups(sorted, k + 1, current_group,
                           group_kva_used + sorted[k].starting_kva, source_kva,
                           source_impedance_pct)
    ELSE <<current_group + 1>>
         \o StartingGroups(sorted, k + 1, current_group + 1, sorted[k].starting_kva,
                           source_kva, source_impedance_pct)

\* check_sequential_starting once the motors are analysed
SequentialStarting(motor_analyses, largest, groups) ==
    IF largest = 0 THEN [exc |-> "TypeError"]
    ELSE [exc |-> "",
          motor_count |-> Len(motor_analyses),
          largest_motor_tag |-> motor_analyses[largest].tag,
          largest_motor_dip_pct |-> motor_analyses[largest].individual_voltage_dip_pct,
          total_starting_kva |->
              SumSeq([i \in 1..Len(motor_analyses) |-> motor_analyses[i].starting_kva]),
          groups |-> groups,
          sequential_start_required |->
              \/ Cardinality({groups[i] : i \in 1..Len(groups)}) > 1
              \/ motor_analyses[largest].individual_voltage_dip_pct > max_voltage_dip_pct]

\* check_sequential_starting
check_sequential_starting(motors, source_kva, source_impedance_pct) ==
    IF motors = <<>> THEN [exc |-> "", error |-> "No motors provided"]
    ELSE SequentialStarting(
             MotorAnalyses(motors, source_kva, source_impedance_pct),
             LargestMotor(MotorAnalyses(motors, source_kva, source_impedance_pct)),
             StartingGroups(
                 SortByStartingKva(MotorAnalyses(motors, source_kva, source_impedance_pct)),
                 1, 1, 0, source_kva, source_impedance_pct))

-----------------------------------------------------------------------------
(* The calculators called on their own: one call of parse_capacity_string,   *)
(* parse_diversity_from_quantity_note, select_bus_rating,                    *)
(* select_main_breaker or check_sequential_starting on arguments drawn from  *)
(* bounded sets.                                                             *)

MaxTokens == 3

\* pieces of capacity texts
CapacityTokens ==
    {<<"5", "0">>, <<".">>, <<" ">>, <<"m", "3", "/", "h", "r">>, <<"N", "m", "3", "/", "h">>,
     <<"M", "3", "/", "d", "a", "y">>, <<"m", "3">>, <<"/">>,
     <<"@", " ", "2", "0", " ", "m", " ", "w", ".", "c", ".">>,
     <<"@", "0", ".", "5", " ", "b", "a", "r">>}

\* pieces of quantity notes
NoteTokens ==
    {<<"2", "W">>, <<"1", "w">>, <<"0", "W">>, <<"+", "1", "S">>, <<"+", " ", "2", "s">>,
     <<"+", "0", "S">>, <<" ">>, <<"x">>, <<"3">>, <<"S">>}

\* the texts made of at most n tokens
RECURSIVE Texts(_, _)
Texts(tokens, n) ==
    IF n = 0 THEN {<<>>}
    ELSE Texts(tokens, n - 1) \cup {t \o k : t \in Texts(tokens, n - 1), k \in tokens}

\* demand currents (hundredths of an ampere) at and next to the steps of the tables
DemandSamples ==
    {0, 260000, 330000, 500000}
    \cup UNION {{80 * STANDARD_BREAKER_RATINGS[i] - 1, 80 * STANDARD_BREAKER_RATINGS[i],
                 80 * STANDARD_BREAKER_RATINGS[i] + 1} :
                   i \in 1..Len(STANDARD_BREAKER_RATINGS)}

\* most motors handed to check_sequential_starting
MaxMotors == 2

\* an entry of motor_list
Motor(equipment_tag, rated_kw, feeder_type) ==
    [equipment_tag |-> equipment_tag, rated_kw |-> rated_kw, feeder_type |-> feeder_type]

\* a large mixer on a drive, a large and a small pump started direct on line, a large
\* blower on a soft starter
MotorSamples ==
    {Motor("300-AG-01", 11000, "vfd"), Motor("100-P-01", 9000, "DOL"),
     Motor("100-P-04", 1000, "DOL"), Motor("200-B-02", 11000, "Soft Starter")}

\* a small and a large transformer, both of 5.75 % impedance
SourceSamples ==
    {[source_kva |-> 250, source_impedance_pct |-> 575],
     [source_kva |-> 1000, source_impedance_pct |-> 575]}

InitCalls ==
    /\ pc = "call"
    /\ \/ /\ call = "parse_capacity_string"
          /\ \E text \in Texts(CapacityTokens, MaxTokens) : args = [capacity_str |-> text]
       \/ /\ call = "parse_diversity_from_quantity_note"
          /\ \/ args = [is_none |-> TRUE, quantity_note |-> <<>>]
             \/ \E text \in Texts(NoteTokens, MaxTokens) :
                   args = [is_none |-> FALSE, quantity_note |-> text]
       \/ /\ call \in {"select_bus_rating", "select_main_breaker"}
          /\ \E amps \in DemandSamples : args = [demand_amps |-> amps]
       \/ /\ call = "check_sequential_starting"
          /\ \E n \in 0..MaxMotors, source \in SourceSamples :
                \E motors \in [1..n -> MotorSamples] :
                    args = [motors |-> motors, source_kva |-> source.source_kva,
                            source_impedance_pct |-> source.source_impedance_pct]
    /\ returned = <<>>
    /\ loaded_catalogs = {}
    /\ catalog_reads = [c \in CatalogNames |-> 0]
    /\ equipment_list = <<>>
    /\ metadata = EmptyMetadata
    /\ MCC_MODULES_AVAILABLE = FALSE
    /\ loads = <<>>
    /\ tier_results = NoResults
    /\ tier_eligibility = NoEligibility
    /\ motor_equipment = <<>>
    /\ duty_points = <<>>
    /\ panels = <<>>
    /\ fault_current_config = NoConfig
    /\ output = NoOutput
    /\ calls = <<>>
    /\ raised = ""
    /\ sizing_artifacts = <<>>
    /\ artifact_index = 0
    /\ fallback_data = <<>>
    /\ result = <<>>

\* the call returns the value, or raises
Return(value) ==
    /\ returned' = value
    /\ raised' = value.exc
    /\ pc' = IF value.exc # "" THEN "raised" ELSE "returned"
    /\ UNCHANGED <<metadata, loads, tier_results, tier_eligibility, MCC_MODULES_AVAILABLE,
                   equipment_list, motor_equipment, duty_points, panels,
                   fault_current_config, output, calls, extract_vars, call, args,
                   catalog_vars>>

CallParseCapacityString ==
    /\ pc = "call" /\ call = "parse_capacity_string"
    /\ Return(parse_capacity_string(args.capacity_str))

CallParseDiversity ==
    /\ pc = "call" /\ call = "parse_diversity_from_quantity_note"
    /\ Return(IF args.is_none \/ args.quantity_note = <<>> THEN NoNote
              ELSE DiversityOfNote(args.quantity_note))

CallSelectBusRating ==
    /\ pc = "call" /\ call = "select_bus_rating"
    /\ Return([exc |-> "", value |-> select_bus_rating(args.demand_amps)])

CallSelectMainBreaker ==
    /\ pc = "call" /\ call = "select_main_breaker"
    /\ Return([exc |-> "", value |-> select_main_breaker(args.demand_amps)])

CallCheckSequentialStarting ==
    /\ pc = "call" /\ call = "check_sequential_starting"
    /\ Return(check_sequential_starting(args.motors, args.source_kva,
                                        args.source_impedance_pct))

NextCalls ==
    \/ CallParseCapacityString
    \/ CallParseDiversity
    \/ CallSelectBusRating
    \/ CallSelectMainBreaker
    \/ CallCheckSequentialStarting

SpecCalls == InitCalls /\ [][NextCalls]_vars

-----------------------------------------------------------------------------
(* Properties of a generate_load_list run *)

Tier2Calculators ==
    {"generate_mcc_schedule", "generate_all_cable_schedules", "calc_plant_load_summary",
     "size_transformer", "check_sequential_starting"}

Tier2Keys ==
    {"mcc_buckets", "cable_schedule", "plant_load_summary", "transformers",
     "motor_starting_analysis"}

GateEvaluated == tier_eligibility # NoEligibility

Returned == pc = "return"

ReportBuilt == "assumption_tracking" \in DOMAIN output

\* C6: a tier-2 calculator is invoked, and a tier-2 section is in the report, only
\* once the tier gate has been evaluated and found eligible_tier >= 2; a run that
\* returns at tier 1 has invoked none of them and its report has none of their keys.
C6_Tier2OnlyWhenEligible ==
    /\ (calls # <<>> \/ DOMAIN output \cap Tier2Keys # {}) =>
          GateEvaluated /\ tier_eligibility.eligible_tier >= 2
    /\ \A i \in 1..Len(calls) : calls[i] \in Tier2Calculators
    /\ (Returned /\ tier_eligibility.eligible_tier = 1) =>
          calls = <<>> /\ DOMAIN output \cap Tier2Keys = {}

\* a run over real loads returned at tier 1 with the tier-2 modules importable
C6_Witness ==
    /\ Returned /\ tier_eligibility.eligible_tier = 1
    /\ loads # <<>> /\ MCC_MODULES_AVAILABLE
    /\ ReportBuilt

\* C7: in every report sccr_ready holds exactly when eligible_tier >= 3 and the
\* resolved fault current is verified, takeoff_ready exactly when eligible_tier >= 2
\* and cable_lengths_verified holds; so sccr_ready excludes fault_current_assumed
\* and takeoff_ready excludes cable_lengths_assumed.
C7_ReadinessIsConjunction ==
    ReportBuilt =>
        LET tracking == output["assumption_tracking"]
            tier == tier_eligibility.eligible_tier
        IN  /\ Truthy(tracking.sccr_ready) <=> (tier >= 3 /\ fault_current_config.verified)
            /\ Truthy(tracking.takeoff_ready) <=>
                  (tier >= 2 /\ Truthy(DictGet(metadata, "cable_lengths_verified")))
            /\ Truthy(tracking.sccr_ready) => ~Truthy(tracking.fault_current_assumed)
            /\ Truthy(tracking.takeoff_ready) => ~Truthy(tracking.cable_lengths_assumed)

\* a tier-3 report whose fault current is not verified, and is not SCCR-ready
C7_Witness ==
    /\ ReportBuilt
    /\ tier_eligibility.eligible_tier = 3
    /\ ~fault_current_config.verified
    /\ ~Truthy(output["assumption_tracking"].sccr_ready)
    /\ Truthy(output["assumption_tracking"].takeoff_ready)

\* C8: in a report with mcc_buckets, every non-spare bucket's
\* assumption_flags.fault_current_assumed equals the report's
\* assumption_tracking.fault_current_assumed.
C8_BucketFlagsFollowReport ==
    "mcc_buckets" \in DOMAIN output =>
        \A i \in 1..Len(output["mcc_buckets"]) :
            LET bucket == output["mcc_buckets"][i]
            IN  bucket.unit_type # "SPARE" =>
                    Bool(bucket.assumption_flags.fault_current_assumed)
                        = output["assumption_tracking"].fault_current_assumed

\* the optional per-equipment data of an equipment record
OptionalEquipmentKeys ==
    {"feeder_type", "efficiency_pct", "fla_nameplate_a", "quantity_note", "mcc_panel",
     "capacity_value", "capacity_unit", "head_m", "pressure_bar_g"}

\* every record has a tag and a power; only optional data is missing or null
OnlyOptionalDataMissing ==
    \A i \in 1..Len(equipment_list) :
        /\ equipment_list[i]["tag"].t = "str"
        /\ equipment_list[i]["power_kw"].t = "num"
        /\ \A k \in EquipmentKeys \ (OptionalEquipmentKeys \cup {"tag", "power_kw"}) :
              equipment_list[i][k] # None

\* C9: a run over an equipment list that lacks only optional per-equipment data
\* (missing or null) never raises.
C9_NeverRaises == OnlyOptionalDataMissing => raised = ""

\* the tier-3 motor data of an equipment record
Tier3MotorData == {"fla_nameplate_a", "efficiency_pct", "feeder_type", "mcc_panel"}

\* some load's tier-3 motor data was not in its equipment record
MotorDataFilledIn ==
    \E i \in 1..Len(loads) : \E k \in Tier3MotorData :
        /\ DictGet(motor_equipment[i], k) = None
        /\ FieldPresent(DictGet(loads[i], k))

\* C10: when process_load filled in tier-3 motor data that the equipment record
\* did not supply, the report's eligible tier is below 3 and motor_data_verified
\* is false.
C10_FilledInDataBelowTier3 ==
    (ReportBuilt /\ MotorDataFilledIn) =>
        /\ tier_eligibility.eligible_tier < 3
        /\ ~Truthy(output["assumption_tracking"].motor_data_verified)

-----------------------------------------------------------------------------
(* Properties of process_load *)

\* nameplate currents a second run may supply instead
NameplateVariants == {Num(980), Num(1040), Num(1234), Num(7250)}

\* the run of process_load on motorized item i with another nameplate FLA
ProcessedWithNameplate(i, v) ==
    process_load(With(motor_equipment[i], [fla_nameplate_a |-> v]),
                 duty_points[motor_equipment[i]["tag"].s])

\* C11: every load carries both flc_table_a and fla_nameplate_a; runs that differ
\* only in the supplied fla_nameplate_a yield the same flc_table_a and lra, and a
\* supplied fla_nameplate_a comes out unchanged up to rounding to one decimal.
C11_FlcAndNameplateIndependent ==
    \A i \in 1..Len(loads) :
        /\ loads[i]["flc_table_a"].t = "num" /\ loads[i]["fla_nameplate_a"].t = "num"
        /\ DictGet(motor_equipment[i], "fla_nameplate_a") # None =>
              loads[i]["fla_nameplate_a"] = Num(Round1(motor_equipment[i]["fla_nameplate_a"].n))
        /\ \A v \in NameplateVariants :
              /\ ProcessedWithNameplate(i, v).exc = ""
              /\ ProcessedWithNameplate(i, v).load["flc_table_a"] = loads[i]["flc_table_a"]
              /\ ProcessedWithNameplate(i, v).load["lra"] = loads[i]["lra"]
              /\ ProcessedWithNameplate(i, v).load["fla_nameplate_a"] = Num(Round1(v.n))

\* a load whose supplied nameplate FLA differs from its table FLC
C11_Witness ==
    \E i \in 1..Len(loads) :
        /\ DictGet(motor_equipment[i], "fla_nameplate_a") # None
        /\ loads[i]["fla_nameplate_a"] = motor_equipment[i]["fla_nameplate_a"]
        /\ loads[i]["fla_nameplate_a"] # loads[i]["flc_table_a"]

\* efficiencies a second run may supply instead
EfficiencyVariants == {Num(8000), Num(9500)}

\* the duty point carries the data of the formula for the type
FormulaData(eq_type, duty_point) ==
    \/ eq_type \in {"P", "PU"} /\ Truthy(DictGet(duty_point, "flow_m3h"))
          /\ Truthy(DictGet(duty_point, "head_m"))
    \/ eq_type \in {"B", "BL"} /\ Truthy(DictGet(duty_point, "flow_nm3h"))
    \/ eq_type \in {"AG", "MX"} /\ Truthy(DictGet(duty_point, "volume_m3"))

\* brake_kw as the load dict holds a brake power: round(x, 2) if x else None
LoadBrakeKw(x) == IF x # 0 THEN Num(x) ELSE None

\* C12: the brake power of a load is the duty point's brake_kw whenever that is
\* present; else the value of the type's formula when the duty point carries its
\* data; else rated_kw x 0.85, whatever the motor efficiency.
C12_BrakePowerPriority ==
    pc = "processed" =>
        LET eq_type == loads[1]["equipment_type"].s
            supplied == DictGet(result, "brake_kw")
        IN  /\ supplied # None => loads[1]["brake_kw"] = LoadBrakeKw(supplied.n)
            /\ supplied = None /\ FormulaData(eq_type, result) =>
                  loads[1]["brake_kw"] = LoadBrakeKw(DutyBrakeKw(eq_type, result).n)
            /\ supplied = None /\ ~FormulaData(eq_type, result) =>
                  /\ loads[1]["brake_kw"] = LoadBrakeKw(RoundDiv(loads[1]["rated_kw"].n * 85, 100))
                  /\ \A v \in EfficiencyVariants :
                        process_load(With(Item, [efficiency_pct |-> v]), result).load["brake_kw"]
                           = loads[1]["brake_kw"]

\* a load whose duty point supplies a brake power that differs from the formula's
C12_Witness ==
    /\ pc = "processed"
    /\ DictGet(result, "brake_kw") # None
    /\ FormulaData(loads[1]["equipment_type"].s, result)
    /\ DutyBrakeKw(loads[1]["equipment_type"].s, result) # result["brake_kw"]
    /\ loads[1]["brake_kw"] = result["brake_kw"]

-----------------------------------------------------------------------------
(* Properties of extract_duty_point *)

\* extract_duty_point is running
Extracting == pc \in {"extract_duty_point", "search_artifacts", "use_fallback"}

\* the artifact the loop is at cannot be loaded or used
ArtifactFails ==
    /\ pc = "search_artifacts"
    /\ artifact_index <= Len(sizing_artifacts)
    /\ sizing_artifacts[artifact_index].kind # "dict"

\* C13: extract_duty_point never raises: a failure to load or parse an artifact is
\* swallowed, the loop goes on to the next artifact, and the call ends with a
\* result dict.
C13_ArtifactFailuresSwallowed ==
    [][/\ Extracting => pc' # "raised" /\ raised' = ""
       /\ ArtifactFails =>
             pc' = "search_artifacts" /\ artifact_index' = artifact_index + 1 /\ result' = result
       /\ Extracting /\ pc' = "extracted" => result'["duty_point_found"].t = "bool"]_vars

\* a duty point taken from an artifact that follows one that failed
C13_Witness ==
    /\ pc = "extracted"
    /\ artifact_index \in 2..Len(sizing_artifacts)
    /\ \E i \in 1..(artifact_index - 1) : sizing_artifacts[i].kind # "dict"
    /\ result["source"] = Str(sizing_artifacts[artifact_index].path)

\* the extractor of the item finds something in artifact i
ArtifactYields(i) ==
    /\ Extractor(DutyPointType(Item)) # ""
    /\ TryArtifactFile(sizing_artifacts[i], Item["tag"].s, DutyPointType(Item)).exc = ""
    /\ TryArtifactFile(sizing_artifacts[i], Item["tag"].s, DutyPointType(Item)).duty_point # None

\* the equipment record holds no capacity value, parsable text, head or pressure
NoFallbackSource ==
    /\ ~Truthy(DictGet(Item, "capacity_value"))
    /\ DOMAIN ParsedText(DictGetD(Item, "capacity", Str(""))).fields = {}
    /\ DOMAIN ParsedText(DictGetD(Item, "description", Str(""))).fields = {}
    /\ ~Truthy(DictGet(Item, "head_m"))
    /\ ~Truthy(DictGet(Item, "pressure_bar_g"))

\* C14: when no artifact yields a record and the equipment record has no capacity
\* value, parsable text, head or pressure, the duty point has duty_point_found =
\* false and no numeric field.
C14_NoSourceNoDutyPoint ==
    /\ pc = "extracted"
    /\ \A i \in 1..Len(sizing_artifacts) : ~ArtifactYields(i)
    /\ NoFallbackSource
    => /\ result["duty_point_found"] = Bool(FALSE)
       /\ \A k \in DutyPointKeys : result[k].t # "num"

\* the records of artifact i in which the extractor of the type looks for the tag
TaggedRecords(i, equipment_type) ==
    LET content == sizing_artifacts[i].content
        Records(k) == {content[k][j] : j \in 1..Len(ArtifactGet(content, k, <<>>))}
        Sized(k) == {r \in Records(k) : Truthy(DictGet(r, "flow")) /\ Truthy(DictGet(r, "head"))}
    IN  CASE Extractor(equipment_type) = "extract_pump_duty_points" ->
                Records("pumps") \cup Sized("equipment")
          [] Extractor(equipment_type) = "extract_blower_duty_points" -> Records("aeration")
          [] Extractor(equipment_type) = "extract_mixer_duty_points" ->
                Records("mixers") \cup Records("tanks")
          [] OTHER -> {}

\* artifact i holds a record whose tag matches the item's, in either direction
HoldsMatchingRecord(i) ==
    /\ sizing_artifacts[i].kind = "dict"
    /\ \E r \in TaggedRecords(i, DutyPointType(Item)) :
          TagMatches(DictGetD(r, "tag", Str("")), Item["tag"].s)

\* C15: the duty point returned is that of the first artifact, in list order,
\* holding a tag-matching record for the extractor of the type; the result comes
\* from the fallback only when no artifact yields a duty point or the type has no
\* extractor.
C15_FirstMatchingArtifact ==
    pc = "extracted" =>
        LET matching == {i \in 1..Len(sizing_artifacts) : HoldsMatchingRecord(i)}
            paths == {Str(sizing_artifacts[i].path) : i \in 1..Len(sizing_artifacts)}
        IN  /\ matching # {} =>
                  result["source"]
                     = Str(sizing_artifacts[CHOOSE i \in matching :
                                               \A j \in matching : i <= j].path)
            /\ result["source"] \notin paths =>
                  \A i \in 1..Len(sizing_artifacts) :
                      ~(ArtifactYields(i)
                        /\ HasData(TryArtifactFile(sizing_artifacts[i], Item["tag"].s,
                                                   DutyPointType(Item)).duty_point))

-----------------------------------------------------------------------------
(* Properties of the fallback data *)

\* the item is of blower type
IsBlower == Upper(DutyPointType(Item)) \in {"B", "BL"}

\* C17: for a blower a fallback flow derived as flow_m3h is passed on as flow_nm3h
\* with the same value, and the fallback never holds both keys; for any other type
\* a derived flow_m3h is passed on unchanged.
C17_BlowerFlowReinterpreted ==
    fallback_data # <<>> =>
        LET derived == DirectFields(Item, DerivedFallback(Item).fields)
        IN  /\ ~(HasKey(fallback_data, "flow_m3h") /\ HasKey(fallback_data, "flow_nm3h"))
            /\ IsBlower /\ HasKey(derived, "flow_m3h") =>
                  fallback_data["flow_nm3h"] = derived["flow_m3h"]
            /\ ~IsBlower => fallback_data["flow_m3h"] = derived["flow_m3h"]

\* a blower whose flow was derived in m3/h
C17_Witness ==
    /\ fallback_data # <<>>
    /\ IsBlower
    /\ HasKey(DerivedFallback(Item).fields, "flow_m3h")
    /\ HasKey(fallback_data, "flow_nm3h")
    /\ ~HasKey(fallback_data, "flow_m3h")

-----------------------------------------------------------------------------
(* Properties of aggregate_by_panel *)

\* the loads of a panel
Members(panel) == {i \in 1..Len(loads) : loads[i]["mcc_panel"].s = panel.panel_tag}

\* the upper-cased feeder type of load i contains the word
FeederHas(i, word) ==
    Contains(Chars(word), UpperChars(Chars(DictGetD(loads[i], "feeder_type", Str("DOL")).s)))

\* C19: in every panel each load is counted in exactly one feeder class, chosen by
\* substring on the upper-cased feeder_type with priority VFD, SOFT, VENDOR, else
\* dol; the feeder counts add up to the number of loads of the panel, which is
\* feeder_count.
C19_FeederClasses ==
    \A p \in 1..Len(panels) :
        LET members == Members(panels[p])
            counts == panels[p].feeder_counts
        IN  /\ counts["vfd"] = Cardinality({i \in members : FeederHas(i, "VFD")})
            /\ counts["soft_starter"]
                  = Cardinality({i \in members : ~FeederHas(i, "VFD") /\ FeederHas(i, "SOFT")})
            /\ counts["vendor"]
                  = Cardinality({i \in members : /\ ~FeederHas(i, "VFD")
                                                 /\ ~FeederHas(i, "SOFT")
                                                 /\ FeederHas(i, "VENDOR")})
            /\ counts["dol"]
                  = Cardinality({i \in members : /\ ~FeederHas(i, "VFD")
                                                 /\ ~FeederHas(i, "SOFT")
                                                 /\ ~FeederHas(i, "VENDOR")})
            /\ counts["vfd"] + counts["soft_starter"] + counts["vendor"] + counts["dol"]
                  = Cardinality(members)
            /\ panels[p].feeder_count = Cardinality(members)

\* a panel with a vendor-supplied drive, counted as a drive, next to a vendor feeder
C19_Witness ==
    \E p \in 1..Len(panels) :
        /\ \E i \in Members(panels[p]) : FeederHas(i, "VENDOR") /\ FeederHas(i, "VFD")
        /\ panels[p].feeder_counts["vfd"] = 1
        /\ panels[p].feeder_counts["vendor"] = 1
        /\ panels[p].feeder_count = 2

-----------------------------------------------------------------------------
(* Properties of the calculators called on their own *)

\* the named calculator has returned
HasReturned(name) == pc = "returned" /\ call = name

\* the keys of the dict parse_capacity_string builds for pattern i, none for 0
PatternKeys(i) ==
    CASE i = 0 -> {}
      [] i = 1 -> {"flow_m3h", "head_m"}
      [] i = 2 -> {"flow_m3h", "p1_bar", "p2_bar"}
      [] i = 3 -> {"flow_nm3h"}
      [] i \in {4, 5} -> {"flow_m3h"}
      [] i = 6 -> {"volume_m3"}

\* C16: parse_capacity_string returns exactly the fields of the first of its six
\* patterns, in their fixed order, that matches the text (flow and head for the
\* flow-@-head pattern), and an empty dict when no pattern matches.
C16_FirstPatternWins ==
    call = "parse_capacity_string" /\ pc # "call" =>
        /\ pc = "returned"
        /\ DOMAIN returned.fields = PatternKeys(FirstMatch(args.capacity_str, 1).pattern)

\* the note of the call, upper-cased and without spaces
NormalisedNote == SelectSeq(UpperChars(args.quantity_note), LAMBDA c : c # " ")

\* the number the note starts with
LeadingCount == ParseInt(SubSeq(NormalisedNote, 1, DigitRun(NormalisedNote, 1)))

\* the note is NW
WorkingOnly ==
    /\ DigitRun(NormalisedNote, 1) >= 1
    /\ NormalisedNote = SubSeq(NormalisedNote, 1, DigitRun(NormalisedNote, 1)) \o <<"W">>

\* the note is NW+MS, M being the digits after the plus sign
WorkingAndStandby ==
    LET n == DigitRun(NormalisedNote, 1)
        m == DigitRun(NormalisedNote, n + 3)
    IN  /\ n >= 1 /\ m >= 1
        /\ NormalisedNote = SubSeq(NormalisedNote, 1, n) \o <<"W", "+">>
                               \o SubSeq(NormalisedNote, n + 3, n + 2 + m) \o <<"S">>

StandbyCount ==
    ParseInt(SubSeq(NormalisedNote, DigitRun(NormalisedNote, 1) + 3,
                    Len(NormalisedNote) - 1))

\* the note is a bare integer
BareInteger == NormalisedNote # <<>> /\ DigitRun(NormalisedNote, 1) = Len(NormalisedNote)

\* the note is empty or absent, or does not start with NW and is no integer
NothingToParse ==
    \/ args.is_none
    \/ args.quantity_note = <<>>
    \/ DigitRun(NormalisedNote, 1) = 0
    \/ /\ DigitRun(NormalisedNote, 1) < Len(NormalisedNote)
       /\ NormalisedNote[DigitRun(NormalisedNote, 1) + 1] # "W"

C20_SmallestRatingOrLargest ==
    pc = "returned" /\ call \in {"select_bus_rating", "select_main_breaker"} =>
        LET table == IF call = "select_bus_rating" THEN STANDARD_BUS_RATINGS
                     ELSE STANDARD_BREAKER_RATINGS
            fits == {i \in 1..Len(table) : 10000 * table[i] >= 125 * args.demand_amps}
            expected == IF fits # {} THEN table[CHOOSE i \in fits : \A j \in fits : i <= j]
                        ELSE table[Len(table)]
        IN  IF call = "select_bus_rating"
            THEN returned.value = IntStr(expected) \o "A"
            ELSE returned.value = expected

-----------------------------------------------------------------------------
(* Properties of the panel summaries *)

\* aggregate_by_panel has returned the panel summaries
Aggregated ==
    pc \notin {"generate_load_list", "extract_all_duty_points", "process_load",
               "aggregate_by_panel", "raised"}

\* the panels whose tag is the mcc_panel of load i
PanelsOf(i) == {p \in 1..Len(panels) : Str(panels[p].panel_tag) = loads[i]["mcc_panel"]}

\* the tags of the loads of a panel, in list order
MemberTags(panel) ==
    LET mine == SelectSeq(loads, LAMBDA l : l["mcc_panel"] = Str(panel.panel_tag))
    IN  [i \in 1..Len(mine) |-> mine[i]["equipment_tag"]]

\* the sum of a field over the loads of a panel
MemberSum(panel, key) ==
    SumSeq([i \in 1..Len(loads) |-> IF i \in Members(panel) THEN loads[i][key].n ELSE 0])

\* a and b differ by at most 0.05 kW: b is a rounded to one decimal
RoundedTo(a, b) == a - b <= 5 /\ b - a <= 5

\* every load is listed by the one panel it is assigned to
PanelsPartitionLoads ==
    /\ \A i \in 1..Len(loads) : Cardinality(PanelsOf(i)) = 1
    /\ \A p \in 1..Len(panels) : panels[p].load_tags = MemberTags(panels[p])

\* C21 (amended): aggregate_by_panel partitions the load list by mcc_panel: every
\* load is in the load_tags of exactly one panel summary, the one whose panel_tag
\* is its mcc_panel, and each panel's connected_kw, running_kw and demand_kw are
\* the sums of installed_kw, running_kw and demand_kw over its member loads,
\* rounded to one decimal.
C21_PanelsPartitionLoads ==
    Aggregated =>
        /\ PanelsPartitionLoads
        /\ \A p \in 1..Len(panels) :
              /\ RoundedTo(MemberSum(panels[p], "installed_kw"), panels[p].connected_kw)
              /\ RoundedTo(MemberSum(panels[p], "running_kw"), panels[p].running_kw)
              /\ RoundedTo(MemberSum(panels[p], "demand_kw"), panels[p].demand_kw)
              /\ panels[p].connected_kw % 10 = 0
              /\ panels[p].running_kw % 10 = 0
              /\ panels[p].demand_kw % 10 = 0

\* a panel of two different loads
C21_Witness ==
    /\ Aggregated
    /\ \E p \in 1..Len(panels) :
          /\ Cardinality(Members(panels[p])) = 2
          /\ panels[p].load_tags[1] # panels[p].load_tags[2]
          /\ panels[p].connected_kw = MemberSum(panels[p], "installed_kw")

\* C21 as stated: the three totals of a panel equal the sums over its member loads.
C21_PanelSumsExact ==
    Aggregated =>
        /\ PanelsPartitionLoads
        /\ \A p \in 1..Len(panels) :
              /\ panels[p].connected_kw = MemberSum(panels[p], "installed_kw")
              /\ panels[p].running_kw = MemberSum(panels[p], "running_kw")
              /\ panels[p].demand_kw = MemberSum(panels[p], "demand_kw")

-----------------------------------------------------------------------------
(* Properties of the load list as a whole *)

\* the positions in the equipment list of the items of a motorized type with a
\* positive rated power
MotorItems ==
    {i \in 1..Len(equipment_list) :
        /\ \/ HasKey(equipment_list[i], "equipment_type")
              /\ equipment_list[i]["equipment_type"].s \in motorized_types
           \/ ~HasKey(equipment_list[i], "equipment_type")
              /\ extract_equipment_type(equipment_list[i]["tag"].s) \in motorized_types
        /\ equipment_list[i]["power_kw"].t = "num"
        /\ equipment_list[i]["power_kw"].n > 0}

\* the k-th smallest member of a set of positions
RECURSIVE Nth(_, _)
Nth(S, k) ==
    LET least == CHOOSE i \in S : \A j \in S : i <= j
    IN  IF k = 1 THEN least ELSE Nth(S \ {least}, k - 1)

\* the panel an item is given, or the panel of its area when it is given none
ExpectedPanel(eq) ==
    IF Truthy(DictGet(eq, "mcc_panel")) THEN eq["mcc_panel"]
    ELSE Str("MCC-" \o IntStr(IF HasKey(eq, "area") THEN eq["area"].n ELSE 100))

-----------------------------------------------------------------------------
(* Properties of the fault current *)

\* get_fault_current_config has returned
ConfigResolved == fault_current_config # NoConfig

\* the metadata hold a fault current that the user marks as verified
UserVerifiedValue ==
    /\ HasKey(metadata, "available_fault_ka")
    /\ metadata["available_fault_ka"] # None
    /\ DictGet(metadata, "fault_current_source") = Str("verified")

\* the metadata hold the transformer data and the calculation is installed
TransformerData == Truthy(DictGet(metadata, "transformer_kva")) /\ MCC_MODULES_AVAILABLE

\* C23: get_fault_current_config resolves the fault current, first match wins, as
\* (1) the explicit user-verified value of the metadata, (2) the value computed
\* from the transformer kVA and impedance, (3) the fixed conservative default; the
\* returned source names the branch taken and no later branch is used when an
\* earlier one applies.
C23_FaultCurrentOrder ==
    ConfigResolved =>
        IF UserVerifiedValue
        THEN /\ fault_current_config.at_mcc_bus_ka = metadata["available_fault_ka"]
             /\ fault_current_config.source = Str("verified")
             /\ fault_current_config.verified
        ELSE IF TransformerData
        THEN /\ fault_current_config.at_mcc_bus_ka
                   = Num(calc_preliminary_fault_current(
                             metadata["transformer_kva"].n,
                             DictGetD(metadata, "transformer_z_pct", Num(575)).n))
             /\ fault_current_config.source = Str("calculated_from_transformer")
             /\ ~fault_current_config.verified
        ELSE /\ fault_current_config.at_mcc_bus_ka
                   = Num(IF MCC_MODULES_AVAILABLE THEN DefaultFaultKa ELSE FallbackFaultKa)
             /\ fault_current_config.source = Str("conservative_default")
             /\ ~fault_current_config.verified

\* C24: whenever the report gives output tier 3, its
\* electrical_basis.available_fault_current.verified is true and
\* assumption_tracking.sccr_ready is true: a tier-3 report never rests on a
\* defaulted or transformer-computed fault current.
C24_Tier3FaultCurrentVerified ==
    ReportBuilt /\ output["output_tier"].tier = 3 =>
        /\ output["electrical_basis"].available_fault_current.verified
        /\ output["electrical_basis"].available_fault_current.source
              \notin {Str("conservative_default"), Str("calculated_from_transformer")}
        /\ output["assumption_tracking"].sccr_ready = Bool(TRUE)

\* C25: a Load Record is immutable after process_load returns it: no later step of
\* the pipeline (assign_panels_by_area, aggregate_by_panel,
\* calculate_tier_eligibility, the tier-2 calculators) changes a field of a Load
\* Record.
C25_LoadRecordsImmutable ==
    [][/\ Len(loads') >= Len(loads)
       /\ \A i \in 1..Len(loads) : loads'[i] = loads[i]]_vars

-----------------------------------------------------------------------------
(* Properties of check_sequential_starting *)

\* the starting analysis of the i-th motor handed in
AnalysisOf(i) ==
    analyze_motor_starting(args.motors[i].rated_kw, args.source_kva,
                           args.source_impedance_pct, StartingMethod(args.motors[i]))

\* the motors that are not started by a drive
NonVfd == {i \in 1..Len(args.motors) : StartingMethod(args.motors[i]) # "VFD"}

\* the combined starting kVA of the motors not started by a drive
CombinedStartingKva ==
    SumSeq([i \in 1..Len(args.motors) |->
               IF i \in NonVfd THEN AnalysisOf(i).effective_starting_kva ELSE 0])

\* check_sequential_starting has returned its analysis of at least one motor
StartingAnalysed ==
    pc = "returned" /\ call = "check_sequential_starting" /\ args.motors # <<>>

\* C26: check_sequential_starting returns sequential_start_required = false only
\* if all motors can start together within the limit: every motor's individual
\* voltage dip is <= max_voltage_dip_pct and the combined starting kVA of the
\* non-VFD motors is <= max_group_kva; so if a non-VFD motor alone exceeds the dip
\* limit the result is true.
C26_SimultaneousStartOnlyWithinLimit ==
    StartingAnalysed /\ ~returned.sequential_start_required =>
        /\ \A i \in 1..Len(args.motors) : AnalysisOf(i).voltage_dip_pct <= max_voltage_dip_pct
        /\ CombinedStartingKva * args.source_impedance_pct
              <= args.source_kva * max_voltage_dip_pct * 10

-----------------------------------------------------------------------------
(* Properties of the equipment type codes *)

\* the profile get_duty_profile reads for a category
CategoryProfile(category) ==
    IF category \in ProfileCategories THEN DutyProfileCatalog(category)
    ELSE [running_hours_per_day |-> 2000, load_factor_vfd |-> 75, load_factor_dol |-> 95,
          duty_cycle |-> "continuous"]

\* the processed load carries the duty profile of the category
GivenCategory(category) ==
    /\ loads[1]["running_hours_per_day"] = Num(CategoryProfile(category).running_hours_per_day)
    /\ loads[1]["duty_cycle"] = Str(CategoryProfile(category).duty_cycle)
    /\ loads[1]["load_factor"] \in {Num(CategoryProfile(category).load_factor_vfd),
                                     Num(CategoryProfile(category).load_factor_dol)}

\* the duty point leaves the brake power to the formula of the type
LeftToFormula(keys) ==
    DictGet(result, "brake_kw") = None /\ \A k \in keys : Truthy(DictGet(result, k))

\* C27: a type code that extract_duty_point dispatches as a blower (B or BL) is
\* treated as a blower by process_load's choice of brake-power formula and is given
\* the blowers category by get_duty_profile; likewise P and PU are pumps, AG and MX
\* mixers, in all three places.
C27_TypeCodesConsistent ==
    pc = "processed" =>
        LET dispatched == Extractor(loads[1]["equipment_type"].s)
        IN  /\ dispatched = "extract_pump_duty_points" =>
                  /\ GivenCategory("pumps")
                  /\ LeftToFormula({"flow_m3h", "head_m"}) =>
                        loads[1]["brake_kw"]
                           = LoadBrakeKw(calc_pump_brake_kw(
                                 result["flow_m3h"].n, result["head_m"].n,
                                 DictGetD(result, "pump_eff", Num(70)).n))
            /\ dispatched = "extract_blower_duty_points" =>
                  /\ GivenCategory("blowers")
                  /\ LeftToFormula({"flow_nm3h"}) =>
                        loads[1]["brake_kw"]
                           = LoadBrakeKw(calc_blower_brake_kw(
                                 result["flow_nm3h"].n,
                                 DictGetD(result, "p1_bar", Num(1013)).n,
                                 DictGetD(result, "p2_bar", Num(1600)).n,
                                 DictGetD(result, "blower_eff", Num(70)).n))
            /\ dispatched = "extract_mixer_duty_points" =>
                  /\ GivenCategory("mixers")
                  /\ LeftToFormula({"volume_m3"}) =>
                        loads[1]["brake_kw"]
                           = LoadBrakeKw(calc_mixer_brake_kw(
                                 result["volume_m3"].n,
                                 DictGetD(result, "w_per_m3", Num(8)).n))

-----------------------------------------------------------------------------
(* Properties of the structured capacity *)

\* the item has a structured capacity in normal cubic metres per hour
NormalFlowUnit ==
    /\ Truthy(DictGet(Item, "capacity_value"))
    /\ Truthy(DictGet(Item, "capacity_unit"))
    /\ Contains(Chars("nm3/h"), LowerChars(Chars(Item["capacity_unit"].s)))

\* C28: in extract_all_duty_points a structured capacity whose unit contains
\* "nm3/h" in any letter case gives the fallback field flow_nm3h = capacity_value
\* and no flow_m3h, for every equipment type.
C28_NormalFlowFromStructuredUnit ==
    fallback_data # <<>> /\ NormalFlowUnit =>
        /\ fallback_data["flow_nm3h"] = Item["capacity_value"]
        /\ ~HasKey(fallback_data, "flow_m3h")

-----------------------------------------------------------------------------
(* Properties of the diversity factor *)

\* C29: the diversity factor that parse_diversity_from_quantity_note returns and
\* the Load Record stores lies in (0, 1], so every Load Record has
\* 0 <= demand_kw <= running_kw, and a demand_kw other than zero whenever its
\* running_kw is other than zero.
C29_DiversityWithinUnitInterval ==
    \A i \in 1..Len(loads) :
        /\ 0 < loads[i]["diversity_factor"].n /\ loads[i]["diversity_factor"].n <= 100
        /\ 0 <= loads[i]["demand_kw"].n /\ loads[i]["demand_kw"].n <= loads[i]["running_kw"].n
        /\ loads[i]["running_kw"].n # 0 => loads[i]["demand_kw"].n # 0

-----------------------------------------------------------------------------
(* Properties of the catalog files *)

\* C30: during one report run each catalog file is read from disk at most once,
\* the duty_profiles lookups made for each panel by aggregate_by_panel included
C30_CatalogsReadAtMostOnce == \A c \in CatalogNames : catalog_reads[c] <= 1

====
